---- MODULE Spec2Model ----
(***************************************************************************)
(* A model of the single-image block file system of src/filesystem.cpp.    *)
(*                                                                         *)
(* The image is modelled block by block.  The superblock, the bitmap block *)
(* and the inode table are kept as typed values (disk.sb, disk.bitmap,     *)
(* disk.inodes); every other block holds a typed content record.  A        *)
(* directory block is kept as the entry headers written into it, keyed by  *)
(* their byte offset, so that the record lengths the code writes (12 for   *)
(* `.` and `..` of a new directory, sizeof(DirEntry) elsewhere) and the    *)
(* overlap of a 264-byte write with what was there are part of the model.  *)
(* Bytes that the code copies to disk from beyond an initialised object    *)
(* are indeterminate; the header such bytes form where a scan would read   *)
(* it is a nondeterministic choice (GarbageOutcomes).                      *)
(***************************************************************************)
EXTENDS Integers, Sequences, FiniteSets, TLC

\* ---------------------------------------------------------------- constants
BLOCK_SIZE == 4096
INODE_SIZE == 128
INODES_PER_BLOCK == BLOCK_SIZE \div INODE_SIZE
DIRECT_BLOCKS == 12
\* BLOCK_SIZE / sizeof(uint32_t): pointers in an indirect block
PTRS_PER_BLOCK == BLOCK_SIZE \div 4
\* sizeof(DirEntry): 4 + 2 + 1 + 1 + 256
DIRENT_SIZE == 264
\* rec_len the code gives `.` and `..` of a directory made by create_file
DOT_REC_LEN == 12
\* strncpy(entry->name, name, 255)
NAME_COPY == 255
FS_MAGIC == 1297303123
\* TLC's integers are 32-bit signed, so a uint32_t is held as its two's-complement
\* reading: 2^32 - k is held as -k (0xFFFFFFFF is -1).  Inc32 and Dec32 are then
\* ++ and -- modulo 2^32, and ULe, ULt compare as unsigned values.
U32_MAX == -1
Inc32(x) == IF x = 2147483647 THEN -2147483647 - 1 ELSE x + 1
Dec32(x) == IF x = -2147483647 - 1 THEN 2147483647 ELSE x - 1
ULt(a, b) == IF (a >= 0) = (b >= 0) THEN a < b ELSE a >= 0
ULe(a, b) == a = b \/ ULt(a, b)
U16 == 65536
U8 == 256

FT_NONE == 0
FT_REGULAR == 1
FT_DIRECTORY == 2

\* ------------------------------------------------------------------- bounds
\* shell commands issued after mount
MaxOps == 4
\* shell commands issued after mount in a session of mkdir and rmdir only
MaxDirOps == 5

\* shell commands issued after mount in a session of copyfrom, append and
\* truncate only
MaxFileOps == 5
\* operations issued after mount in a session that names the root
MaxRootOps == 3
\* operations issued after mount in a session on an image that holds a file
\* of more than DIRECT_BLOCKS + PTRS_PER_BLOCK blocks
MaxBigOps == 2
\* the largest image, in blocks, of the sessions that only format and mount
MaxUsageBlocks == 40
\* the commands of a session of copies and queries
MaxReadOps == 3

\* ----------------------------------------------------------- inputs (bounded)
P_a == <<"/", "a">>
P_b == <<"/", "b">>
P_aa == <<"/", "a", "/", "a">>
P_ab == <<"/", "a", "/", "b">>
Paths == {P_a, P_b, P_aa, P_ab}
FilePaths == {P_a, P_b}
\* the root by its two spellings, "/" and the empty path, and one name in it
P_root == <<"/">>
P_empty == <<>>
RootPaths == {P_root, P_empty, P_a}
LinkPairs == {<<P_a, P_b>>, <<P_b, P_a>>, <<P_a, P_ab>>}
\* image sizes in bytes given to format: one block (the size computations of
\* create_disk wrap), and 20 blocks with 5 inodes
FormatSizes == {4096, 81920}
\* host file sizes for copy_from_system: direct range, indirect range, too big
HostSizes == {10, 49153, 69632}
AppendSizes == {4100, 49153, 69632}
TruncateSizes == {5, 4096}
\* the sizes of a session of copyfrom, append and truncate only: a host file of
\* exactly twelve blocks, and an append of one byte
FileHostSizes == {10, 12 * BLOCK_SIZE, 12 * BLOCK_SIZE + 1}
FileAppendSizes == {1, 4100, 49153}
\* the sizes of a session at the capacity of a file: an image of 1100 blocks,
\* host files of exactly DIRECT_BLOCKS + PTRS_PER_BLOCK blocks and of one byte more
BigFormatSizes == {1100 * BLOCK_SIZE}
BigHostSizes == {10, (DIRECT_BLOCKS + PTRS_PER_BLOCK) * BLOCK_SIZE,
                 (DIRECT_BLOCKS + PTRS_PER_BLOCK) * BLOCK_SIZE + 1}
BigAppendSizes == {1, BLOCK_SIZE, 2 * BLOCK_SIZE}
\* what the indeterminate bytes after a short object form where a scan reads
\* the next header: "zero" = a terminator, "junk" = a non-empty header
GarbageOutcomes == {"zero", "junk"}
\* what a word read past the end of a stack array can hold: zero, or a pattern
\* that names no block
StackWords == {0, U32_MAX}

\* ------------------------------------------------------------------ strings
\* a path or a name is a sequence of one-character strings
Min(a, b) == IF a < b THEN a ELSE b
Max(a, b) == IF a > b THEN a ELSE b
CeilDiv(a, b) == (a + b - 1) \div b
\* F applied to the value of v: a local that is computed once and then used
With(v, F(_)) == CHOOSE r \in {F(x) : x \in {v}} : TRUE

\* s.substr(from) with a 0-based index
SubstrFrom(s, from) == SubSeq(s, from + 1, Len(s))
\* s.substr(0, n)
SubstrTo(s, n) == SubSeq(s, 1, n)
\* s.find_last_of('/') as a 0-based index (the absolute path starts with '/')
FindLastSlash(s) == (CHOOSE i \in 1..Len(s) : s[i] = "/" /\ \A j \in (i + 1)..Len(s) : s[j] # "/") - 1

\* the path used as given, neither made absolute nor stripped
PathAsGiven(path) == path
get_absolute_path(path) ==
    LET p1 == IF Len(path) = 0 \/ path[1] # "/" THEN <<"/">> \o path ELSE path
    IN  IF Len(p1) > 1 /\ p1[Len(p1)] = "/" THEN SubSeq(p1, 1, Len(p1) - 1) ELSE p1

\* the component loop of find_inode_by_path: split on '/', drop empty components
RECURSIVE SplitFrom(_, _, _)
SplitFrom(s, i, cur) ==
    IF i > Len(s)
    THEN IF cur # <<>> THEN <<cur>> ELSE <<>>
    ELSE IF s[i] = "/"
         THEN (IF cur # <<>> THEN <<cur>> ELSE <<>>) \o SplitFrom(s, i + 1, <<>>)
         ELSE SplitFrom(s, i + 1, Append(cur, s[i]))
Components(abs) == SplitFrom(abs, 2, <<>>)

\* the parent/name split every operation repeats on the absolute path
ParentOf(path) ==
    LET abs == get_absolute_path(path)
        pos == FindLastSlash(abs)
    IN  IF pos = 0 THEN <<"/">> ELSE SubstrTo(abs, pos)
NameOf(path) ==
    LET abs == get_absolute_path(path)
        pos == FindLastSlash(abs)
    IN  SubstrFrom(abs, pos + 1)

\* name bytes as stored by strncpy(dst, src, 255); dst[255] = 0
StoredName(name) == SubSeq(name, 1, Min(Len(name), NAME_COPY))
\* name.length() assigned to the uint8_t name_len
StoredLen(name) == Len(name) % U8
CharAt(s, k) == IF k <= Len(s) THEN s[k] ELSE "NUL"
\* strncmp(entry->name, comp, entry->name_len) == 0 && comp.length() == entry->name_len
NameMatches(e, comp) ==
    /\ Len(comp) = e.name_len
    /\ \A k \in 1..e.name_len : CharAt(e.name, k) = CharAt(comp, k)
IsDot(e) == e.name_len = 1 /\ CharAt(e.name, 1) = "."
IsDotDot(e) == e.name_len = 2 /\ CharAt(e.name, 1) = "." /\ CharAt(e.name, 2) = "."

\* ------------------------------------------------------------ on-disk records
NoBlocks == [i \in 0..DIRECT_BLOCKS |-> 0]
NewInode == [mode |-> 0, size |-> 0, links_count |-> 0, blocks |-> NoBlocks]

DirEntry(ino, rl, nm, ft) ==
    [inode |-> ino, rec_len |-> rl, name_len |-> StoredLen(nm), file_type |-> ft,
     name |-> StoredName(nm)]
ZeroEntry == [inode |-> 0, rec_len |-> 0, name_len |-> 0, file_type |-> 0, name |-> <<>>]
\* a header formed by indeterminate bytes that is not a terminator: a non-zero
\* inode number outside the table and a record length that leaves the block
JunkEntry == [inode |-> U32_MAX, rec_len |-> U16 - 1, name_len |-> 1, file_type |-> 0,
              name |-> <<"?">>]

NoEnts == [o \in {} |-> ZeroEntry]
ZeroBlock == [kind |-> "zero", ents |-> NoEnts, uninit |-> FALSE, ptrs |-> <<>>, segs |-> <<>>]
DirBlock(es, un) == [kind |-> "dir", ents |-> es, uninit |-> un, ptrs |-> <<>>, segs |-> <<>>]
\* an indirect block: ptrs[k + 1] is slot k, slots past Len(ptrs) are 0
IndBlock(ps) == [kind |-> "ind", ents |-> NoEnts, uninit |-> FALSE, ptrs |-> ps, segs |-> <<>>]
\* a payload block: segments [src, off, len] laid out from byte 0, zero after
DataBlock(sg) == [kind |-> "data", ents |-> NoEnts, uninit |-> FALSE, ptrs |-> <<>>, segs |-> sg]

\* the byte values of the characters used in names
CharCode(c) ==
    CASE c = "." -> 46 [] c = "/" -> 47 [] c = "?" -> 63 [] c = "a" -> 97 [] c = "b" -> 98
      [] OTHER -> 0
\* bytes k..k+3 of the name field of a zero-initialised entry as a little-endian word
RECURSIVE LittleEndian(_, _, _)
LittleEndian(s, k, n) ==
    IF n = 0 THEN 0 ELSE CharCode(CharAt(s, k + 1)) + U8 * LittleEndian(s, k + 1, n - 1)
NameWord(e, k) == LittleEndian(e.name, k, 4)
\* the first sizeof(Superblock) bytes of a block image read as a Superblock
AsSuperblock(c) ==
    With(IF 0 \in DOMAIN c.ents THEN c.ents[0] ELSE ZeroEntry, LAMBDA e :
    With([j \in 0..6 |-> NameWord(e, 4 * j)], LAMBDA w :
        [magic |-> e.inode,
         block_size |-> e.rec_len + U16 * (e.name_len + U8 * e.file_type),
         blocks_count |-> w[0], free_blocks_count |-> w[1],
         inodes_count |-> w[2], free_inodes_count |-> w[3],
         first_data_block |-> w[4], first_inode_block |-> w[5],
         bitmap_block |-> w[6]]))

\* the header a scan reads at byte offset off of a directory block
HeaderAt(blk, off) == IF off \in DOMAIN blk.ents THEN blk.ents[off] ELSE ZeroEntry
\* slot k of a block read as an array of 1024 block pointers
PtrAt(blk, k) == IF k + 1 <= Len(blk.ptrs) THEN blk.ptrs[k + 1] ELSE 0

\* memcpy of one 264-byte entry to offset off: headers it overlaps are gone
PutEntry(blk, off, e) ==
    LET keep == {o \in DOMAIN blk.ents : o + 8 <= off \/ o >= off + DIRENT_SIZE}
    IN  DirBlock([o \in keep \cup {off} |-> IF o = off THEN e ELSE blk.ents[o]], blk.uninit)
\* the offset of the header after an entry written at off, when the bytes there
\* were never written by the program (<<b, offset>>, or nothing)
GarbageAfter(b, blk, off) ==
    LET nxt == off + DIRENT_SIZE
    IN  IF blk.uninit /\ nxt < BLOCK_SIZE /\ nxt \notin DOMAIN blk.ents THEN <<(<<b, nxt>>)>> ELSE <<>>

\* the offsets a scan visits before it stops (inode = 0, rec_len = 0 or block end)
RECURSIVE Chain(_, _)
Chain(blk, off) ==
    IF off >= BLOCK_SIZE THEN <<>>
    ELSE LET e == HeaderAt(blk, off)
         IN  IF e.inode = 0 \/ e.rec_len = 0 THEN <<>>
             ELSE <<off>> \o Chain(blk, off + e.rec_len)
\* where the scan stops: the offset of the terminator, or past the block
RECURSIVE StopOff(_, _)
StopOff(blk, off) ==
    IF off >= BLOCK_SIZE THEN off
    ELSE LET e == HeaderAt(blk, off)
         IN  IF e.inode = 0 \/ e.rec_len = 0 THEN off
             ELSE StopOff(blk, off + e.rec_len)

\* ---------------------------------------------------------------------- state
VARIABLES
    phase,          \* "new" (constructed), "created" (create_disk done), "mounted",
                    \* "aborted" (stopped in create_disk), "failed" (mount refused)
    superblock,     \* FileSystem::superblock (in core)
    block_bitmap,   \* FileSystem::block_bitmap (in core)
    disk,           \* the backing image: [sb, bitmap, inodes, blocks]
    last,           \* the last public operation, its arguments and its result
    nops            \* operations issued since mount

vars == <<phase, superblock, block_bitmap, disk, last, nops>>

\* operators work on a record st = [sb, bm, d] of the three program variables
Cur == [sb |-> superblock, bm |-> block_bitmap, d |-> disk]

\* --------------------------------------------------------------- block device
BlockOK(st, b) == ULt(b, st.sb.blocks_count)
read_block(st, b) == IF BlockOK(st, b) THEN st.d.blocks[b] ELSE ZeroBlock
\* block 0 holds the superblock: a block written there replaces it on the image
write_block(st, b, c) ==
    IF ~BlockOK(st, b) THEN st
    ELSE IF b = 0 THEN [st EXCEPT !.d.blocks[b] = c, !.d.sb = AsSuperblock(c)]
    ELSE [st EXCEPT !.d.blocks[b] = c]
write_superblock(st) == [st EXCEPT !.d.sb = st.sb]
write_bitmap(st) ==
    IF BlockOK(st, st.sb.bitmap_block) THEN [st EXCEPT !.d.bitmap = st.bm] ELSE st

\* ------------------------------------------------------------------ allocator
\* an allocator that takes the highest block whose bit is clear
AllocateLastFit(st) ==
    LET free == {i \in 0..(st.sb.blocks_count - 1) : ~st.bm[i]}
    IN  IF free = {} THEN [st |-> st, ret |-> 0]
        ELSE LET i == CHOOSE x \in free : \A y \in free : x >= y
                 s1 == [st EXCEPT !.bm[i] = TRUE,
                                  !.sb.free_blocks_count = Dec32(@)]
             IN  [st |-> write_superblock(write_bitmap(s1)), ret |-> i]
allocate_block(st) ==
    LET free == {i \in 0..(st.sb.blocks_count - 1) : ~st.bm[i]}
    IN  IF free = {} THEN [st |-> st, ret |-> 0]
        ELSE LET i == CHOOSE x \in free : \A y \in free : x <= y
                 s1 == [st EXCEPT !.bm[i] = TRUE,
                                  !.sb.free_blocks_count = Dec32(@)]
             IN  [st |-> write_superblock(write_bitmap(s1)), ret |-> i]

free_block(st, b) ==
    IF ULt(b, st.sb.blocks_count) /\ st.bm[b]
    THEN LET s1 == [st EXCEPT !.bm[b] = FALSE,
                              !.sb.free_blocks_count = Inc32(@)]
         IN  write_superblock(write_bitmap(s1))
    ELSE st

\* free_block applied to a list of block numbers in order, zeros skipped
RECURSIVE FreeRange(_, _, _, _)
FreeRange(st, bs, lo, hi) ==
    IF lo > hi THEN st
    ELSE IF lo = hi THEN (IF bs[lo] # 0 THEN free_block(st, bs[lo]) ELSE st)
    ELSE With(FreeRange(st, bs, lo, (lo + hi) \div 2), LAMBDA h :
              FreeRange(h, bs, (lo + hi) \div 2 + 1, hi))
FreeAll(st, bs) == FreeRange(st, bs, 1, Len(bs))

\* --------------------------------------------------------------- inode access
InodeOK(st, n) == n # 0 /\ ULe(n, st.sb.inodes_count)
read_inode(st, n) == st.d.inodes[n]
write_inode(st, n, ino) == IF InodeOK(st, n) THEN [st EXCEPT !.d.inodes[n] = ino] ELSE st

allocate_inode(st) ==
    LET free == {i \in 1..st.sb.inodes_count : st.d.inodes[i].links_count = 0}
    IN  IF free = {} THEN [st |-> st, ret |-> 0]
        ELSE LET i == CHOOSE x \in free : \A y \in free : x <= y
                 s1 == [st EXCEPT !.sb.free_inodes_count = Dec32(@)]
             IN  [st |-> write_superblock(s1), ret |-> i]

DirectPtrs(ino) == [k \in 1..DIRECT_BLOCKS |-> ino.blocks[k - 1]]

free_inode(st, n) ==
    IF ~InodeOK(st, n) THEN st
    ELSE LET ino == read_inode(st, n)
             ind == ino.blocks[DIRECT_BLOCKS]
         IN  With(FreeAll(st, DirectPtrs(ino)), LAMBDA s1 :
             LET s2 == IF ind # 0
                       THEN free_block(FreeAll(s1, IF BlockOK(s1, ind) THEN read_block(s1, ind).ptrs ELSE <<>>), ind)
                       ELSE s1
                 s3 == write_inode(s2, n, NewInode)
             IN  write_superblock([s3 EXCEPT !.sb.free_inodes_count = Inc32(@)]))

\* ------------------------------------------------------------ path resolution
\* the blocks a directory scan reads: blocks[0..11] up to the first zero pointer
RECURSIVE ScanBlocksFrom(_, _)
ScanBlocksFrom(ino, i) ==
    IF i >= DIRECT_BLOCKS \/ ino.blocks[i] = 0 THEN <<>>
    ELSE <<ino.blocks[i]>> \o ScanBlocksFrom(ino, i + 1)
ScanBlocks(ino) == ScanBlocksFrom(ino, 0)

\* the entries a scan of a directory visits, in order, as <<block, offset>>
RECURSIVE VisitedIn(_, _)
VisitedIn(st, bs) ==
    IF bs = <<>> THEN <<>>
    ELSE LET b == Head(bs)
             ch == IF BlockOK(st, b) THEN Chain(read_block(st, b), 0) ELSE <<>>
         IN  [k \in 1..Len(ch) |-> <<b, ch[k]>>] \o VisitedIn(st, Tail(bs))
Visited(st, ino) == VisitedIn(st, ScanBlocks(ino))
EntryOf(st, v) == HeaderAt(read_block(st, v[1]), v[2])

\* the first visited entry whose name matches, 0 if none
Lookup(st, ino, comp) ==
    With(Visited(st, ino), LAMBDA vs :
    With({k \in 1..Len(vs) : NameMatches(EntryOf(st, vs[k]), comp)}, LAMBDA hit :
        IF hit = {} THEN 0
        ELSE EntryOf(st, vs[CHOOSE k \in hit : \A j \in hit : k <= j]).inode))

RECURSIVE Walk(_, _, _)
Walk(st, cur, comps) ==
    IF comps = <<>> THEN cur
    ELSE IF ~InodeOK(st, cur) THEN 0
    ELSE LET ino == read_inode(st, cur)
         IN  IF ino.mode # FT_DIRECTORY THEN 0
             ELSE With(Lookup(st, ino, Head(comps)), LAMBDA nxt :
                      IF nxt = 0 THEN 0 ELSE Walk(st, nxt, Tail(comps)))

find_inode_by_path(st, path) ==
    LET abs == get_absolute_path(path)
    IN  IF abs = <<"/">> THEN 1 ELSE Walk(st, 1, Components(abs))

\* ------------------------------------------------------- format and mount
\* block_bitmap[0], [1] and [2 + i] are set after resize(num_blocks): an index
\* at or past num_blocks is outside the vector
BitmapOverrun(size) ==
    LET num_blocks == CeilDiv(size, BLOCK_SIZE)
        inodes_count == num_blocks \div 4
        inode_blocks == CeilDiv(inodes_count * INODE_SIZE, BLOCK_SIZE)
    IN  2 + inode_blocks > num_blocks

\* create_disk up to the initialisation of the bitmap: the zero-filled image
\* with the superblock written
create_disk_start(size) ==
    LET num_blocks == CeilDiv(size, BLOCK_SIZE)
        inodes_count == num_blocks \div 4
        inode_blocks == CeilDiv(inodes_count * INODE_SIZE, BLOCK_SIZE)
        sb0 == [magic |-> FS_MAGIC, block_size |-> BLOCK_SIZE, blocks_count |-> num_blocks,
                free_blocks_count |-> num_blocks - 2 - inode_blocks,
                inodes_count |-> inodes_count,
                free_inodes_count |-> inodes_count - 1,
                first_data_block |-> 2 + inode_blocks, first_inode_block |-> 2,
                bitmap_block |-> 1]
    IN  [sb |-> sb0, bm |-> [i \in 0..(num_blocks - 1) |-> FALSE],
         d |-> [sb |-> sb0, bitmap |-> [i \in 0..(num_blocks - 1) |-> FALSE],
                inodes |-> [i \in 1..inodes_count |-> NewInode],
                blocks |-> [b \in 0..(num_blocks - 1) |-> ZeroBlock]]]

\* a zeroed block with inode ino at offset 0, as a directory scan reads it:
\* mode lies where DirEntry.inode is read and size where rec_len, name_len and
\* file_type are; links_count and the block numbers lie in the name field
InodeTableImage(ino) ==
    DirBlock([o \in {0} |->
                 [inode |-> ino.mode, rec_len |-> ino.size % U16,
                  name_len |-> (ino.size \div U16) % U8, file_type |-> ino.size \div (U16 * U8),
                  name |-> <<>>]], FALSE)

\* create_disk: the in-core state and the image it leaves behind (the part of
\* the file past blocks_count, which no block read or write reaches, is left out)
create_disk(size) ==
    With(create_disk_start(size), LAMBDA s0 :
    LET num_blocks == s0.sb.blocks_count
        inode_blocks == s0.sb.first_data_block - 2
        bm0 == [i \in 0..(num_blocks - 1) |-> i < 2 + inode_blocks]
    IN
    With(allocate_block(write_bitmap([s0 EXCEPT !.bm = bm0])), LAMBDA a :
    LET root_block == a.ret
        root_inode == [NewInode EXCEPT !.mode = FT_DIRECTORY, !.links_count = 1,
                                       !.blocks[0] = root_block]
        dir == DirBlock([o \in {0, DIRENT_SIZE} |->
                            IF o = 0 THEN DirEntry(1, DIRENT_SIZE, <<".">>, FT_DIRECTORY)
                            ELSE DirEntry(1, DIRENT_SIZE, <<".", ".">>, FT_DIRECTORY)], FALSE)
        s1 == write_block(a.st, root_block, dir)
        \* "Directly write the root inode to the inode table block": with no
        \* inode-table block, first_inode_block is the first data block
        s2 == IF inode_blocks = 0
              THEN write_block(s1, s1.sb.first_inode_block, InodeTableImage(root_inode))
              ELSE s1
    IN  [s2 EXCEPT !.d.inodes = [i \in DOMAIN @ |-> IF i = 1 THEN root_inode ELSE NewInode]]))

\* ------------------------------------------------------------- create_file
\* the first block of a new directory, written from DirEntry entries[2]
\* (the bytes after each name, and after entries[1], are indeterminate)
NewDirBlock(self, parent) ==
    LET dot == DirEntry(self, DOT_REC_LEN, <<".">>, FT_DIRECTORY)
        dotdot == DirEntry(parent, DOT_REC_LEN, <<".", ".">>, FT_DIRECTORY)
    IN  DirBlock([o \in {0, DIRENT_SIZE} |-> IF o = 0 THEN dot ELSE dotdot], TRUE)

\* a directory block written from one DirEntry new_entry on the stack
\* (the bytes after the entry are indeterminate)
NewEntryBlock(e) ==
    PutEntry(DirBlock(NoEnts, TRUE), 0, e)

\* the insertion loop of create_file up to the point an entry is placed: tries
\* blocks[i..11] of the parent in order.  Returns the state, the parent inode as
\* changed, how the loop ended: "slot" (entry placed in an existing block, at a
\* terminator), "newblock" (entry placed in a newly allocated block), "nospace"
\* (allocate_block returned 0) or "full" (no block took the entry), and gs, the
\* never-written header that now follows the entry.
RECURSIVE InsertFrom(_, _, _, _)
InsertFrom(st, pino, i, e) ==
    IF i >= DIRECT_BLOCKS THEN [st |-> st, pino |-> pino, how |-> "full", gs |-> <<>>]
    ELSE IF pino.blocks[i] = 0
    THEN With(allocate_block(st), LAMBDA a :
         With(NewEntryBlock(e), LAMBDA nb :
             IF a.ret = 0
             THEN [st |-> a.st, pino |-> pino, how |-> "nospace", gs |-> <<>>]
             ELSE [st |-> write_block(a.st, a.ret, nb),
                   pino |-> [pino EXCEPT !.blocks[i] = a.ret],
                   how |-> "newblock", gs |-> GarbageAfter(a.ret, nb, 0)]))
    ELSE IF ~BlockOK(st, pino.blocks[i]) THEN InsertFrom(st, pino, i + 1, e)
    ELSE With(read_block(st, pino.blocks[i]), LAMBDA blk :
         With(StopOff(blk, 0), LAMBDA stop :
             IF stop < BLOCK_SIZE
             THEN \* "Found empty slot": inode = 0 or rec_len = 0 at stop
                  With(PutEntry(blk, stop, e), LAMBDA nb :
                      [st |-> write_block(st, pino.blocks[i], nb), pino |-> pino,
                       how |-> "slot",
                       gs |-> IF stop \in DOMAIN blk.ents THEN <<>>
                              ELSE GarbageAfter(pino.blocks[i], nb, stop)])
             ELSE \* the scan left the block: ptr + sizeof(DirEntry) > block end
                  InsertFrom(st, pino, i + 1, e)))

\* a successful call also gives mid, the image as "Write new inode" leaves it,
\* before the insertion loop
create_file(st, parent_path, name, type) ==
    With(find_inode_by_path(st, parent_path), LAMBDA parent_inode_num :
    IF parent_inode_num = 0 THEN [st |-> st, ret |-> 0, at |-> "noparent", gs |-> <<>>]
    ELSE IF ~InodeOK(st, parent_inode_num) THEN [st |-> st, ret |-> 0, at |-> "noparent", gs |-> <<>>]
    ELSE LET parent_inode == read_inode(st, parent_inode_num) IN
    IF parent_inode.mode # FT_DIRECTORY THEN [st |-> st, ret |-> 0, at |-> "notdir", gs |-> <<>>]
    ELSE IF Lookup(st, parent_inode, name) # 0 THEN [st |-> st, ret |-> 0, at |-> "exists", gs |-> <<>>]
    ELSE With(allocate_inode(st), LAMBDA ai :
    LET new_inode_num == ai.ret IN
    IF new_inode_num = 0 THEN [st |-> ai.st, ret |-> 0, at |-> "noinode", gs |-> <<>>]
    ELSE With(IF type = FT_DIRECTORY THEN allocate_block(ai.st) ELSE [st |-> ai.st, ret |-> 0],
              LAMBDA ab :
    IF type = FT_DIRECTORY /\ ab.ret = 0
    THEN [st |-> free_inode(ab.st, new_inode_num), ret |-> 0, at |-> "nospace", gs |-> <<>>]
    ELSE LET new_inode == [NewInode EXCEPT !.mode = type, !.links_count = 1,
                                          !.blocks[0] = ab.ret]
             s1 == IF type = FT_DIRECTORY
                   THEN write_block(ab.st, ab.ret, NewDirBlock(new_inode_num, parent_inode_num))
                   ELSE ab.st
             g1 == IF type = FT_DIRECTORY THEN <<(<<ab.ret, DOT_REC_LEN>>)>> ELSE <<>>
             s2 == write_inode(s1, new_inode_num, new_inode)
             e == DirEntry(new_inode_num, DIRENT_SIZE, name, type)
         IN
    With(InsertFrom(s2, parent_inode, 0, e), LAMBDA r :
    IF r.how \in {"nospace", "full"}
    THEN [st |-> free_inode(r.st, new_inode_num), ret |-> 0, at |-> r.how, gs |-> <<>>]
    ELSE [st |-> write_inode(r.st, parent_inode_num, r.pino), ret |-> new_inode_num,
          at |-> r.how, gs |-> g1 \o r.gs, mid |-> s2]))))

\* a create_directory that takes its inode before looking at the parent
MkdirClaimsInodeFirst(st, path) ==
    With(allocate_inode(st), LAMBDA a :
    With(create_file(a.st, ParentOf(path), NameOf(path), FT_DIRECTORY), LAMBDA r :
        [st |-> r.st, ok |-> (r.ret # 0), at |-> r.at, gs |-> r.gs]))

create_directory(st, path) ==
    With(create_file(st, ParentOf(path), NameOf(path), FT_DIRECTORY), LAMBDA r :
        [st |-> r.st, ok |-> (r.ret # 0), at |-> r.at, gs |-> r.gs])

\* ------------------------------------------------- remove_directory, remove_file
\* the emptiness scan of remove_directory: a visited entry other than . and ..
HasChild(st, ino) ==
    LET vs == Visited(st, ino)
    IN  \E k \in 1..Len(vs) : LET e == EntryOf(st, vs[k]) IN ~IsDot(e) /\ ~IsDotDot(e)

\* "Remove directory entry from parent": in every scanned block, the first
\* visited entry whose inode field is n gets inode = 0
RECURSIVE TombstoneIn(_, _, _)
TombstoneIn(st, bs, n) ==
    IF bs = <<>> THEN st
    ELSE LET b == Head(bs)
             blk == read_block(st, b)
         IN  With(IF BlockOK(st, b) THEN Chain(blk, 0) ELSE <<>>, LAMBDA ch :
             With({k \in 1..Len(ch) : blk.ents[ch[k]].inode = n}, LAMBDA hit :
             LET s1 == IF hit = {} THEN st
                       ELSE LET o == ch[CHOOSE k \in hit : \A j \in hit : k <= j]
                            IN  write_block(st, b, [blk EXCEPT !.ents[o].inode = 0])
             IN  TombstoneIn(s1, Tail(bs), n)))

remove_directory(st, path) ==
    With(find_inode_by_path(st, path), LAMBDA dir_inode_num :
    IF dir_inode_num = 0 \/ ~InodeOK(st, dir_inode_num) THEN [st |-> st, ok |-> FALSE, at |-> "notfound"]
    ELSE LET dir_inode == read_inode(st, dir_inode_num) IN
    IF dir_inode.mode # FT_DIRECTORY THEN [st |-> st, ok |-> FALSE, at |-> "notdir"]
    ELSE IF HasChild(st, dir_inode) THEN [st |-> st, ok |-> FALSE, at |-> "notempty"]
    ELSE With(find_inode_by_path(st, ParentOf(path)), LAMBDA parent_inode_num :
    IF parent_inode_num = 0 \/ ~InodeOK(st, parent_inode_num) THEN [st |-> st, ok |-> FALSE, at |-> "noparent"]
    ELSE LET parent_inode == read_inode(st, parent_inode_num)
             s1 == TombstoneIn(st, ScanBlocks(parent_inode), dir_inode_num)
         IN  [st |-> free_inode(s1, dir_inode_num), ok |-> TRUE, at |-> "done"]))

remove_file(st, path) ==
    With(find_inode_by_path(st, path), LAMBDA file_inode_num :
    IF file_inode_num = 0 \/ ~InodeOK(st, file_inode_num) THEN [st |-> st, ok |-> FALSE, at |-> "notfound"]
    ELSE LET file_inode == read_inode(st, file_inode_num) IN
    With(find_inode_by_path(st, ParentOf(path)), LAMBDA parent_inode_num :
    IF parent_inode_num = 0 \/ ~InodeOK(st, parent_inode_num) THEN [st |-> st, ok |-> FALSE, at |-> "noparent"]
    ELSE LET parent_inode == read_inode(st, parent_inode_num)
             links == Dec32(file_inode.links_count)
         IN  With(TombstoneIn(st, ScanBlocks(parent_inode), file_inode_num), LAMBDA s1 :
             IF links = 0
             THEN [st |-> free_inode(s1, file_inode_num), ok |-> TRUE, at |-> "freed"]
             ELSE [st |-> write_inode(s1, file_inode_num, [file_inode EXCEPT !.links_count = links]),
                   ok |-> TRUE, at |-> "unlinked"])))

\* ------------------------------------------------------------- create_link
\* the insertion loop of create_link.  It has no entry_added flag: its breaks
\* leave the inner scan only, and the loop over blocks ends at the new-block
\* branch or at the "add at the end" branch, which is taken when the scan
\* visited an entry (last_entry) and the slot lies a whole entry inside the block
RECURSIVE LinkFrom(_, _, _, _, _, _)
LinkFrom(st, pino, i, e, placed, gs) ==
    IF i >= DIRECT_BLOCKS THEN [st |-> st, pino |-> pino, ok |-> TRUE, placed |-> placed, gs |-> gs]
    ELSE IF pino.blocks[i] = 0
    THEN With(allocate_block(st), LAMBDA a :
         With(NewEntryBlock(e), LAMBDA nb :
             IF a.ret = 0 THEN [st |-> a.st, pino |-> pino, ok |-> FALSE, placed |-> placed, gs |-> gs]
             ELSE [st |-> write_block(a.st, a.ret, nb),
                   pino |-> [pino EXCEPT !.blocks[i] = a.ret], ok |-> TRUE,
                   placed |-> placed + 1, gs |-> gs \o GarbageAfter(a.ret, nb, 0)]))
    ELSE IF ~BlockOK(st, pino.blocks[i]) THEN LinkFrom(st, pino, i + 1, e, placed, gs)
    ELSE With(read_block(st, pino.blocks[i]), LAMBDA blk :
         With(StopOff(blk, 0), LAMBDA stop :
             IF stop < BLOCK_SIZE
             THEN With(PutEntry(blk, stop, e), LAMBDA nb :
                  With(write_block(st, pino.blocks[i], nb), LAMBDA s1 :
                  With(IF stop \in DOMAIN blk.ents THEN gs
                       ELSE gs \o GarbageAfter(pino.blocks[i], nb, stop), LAMBDA g1 :
                      IF stop # 0 /\ stop + DIRENT_SIZE <= BLOCK_SIZE
                      THEN [st |-> s1, pino |-> pino, ok |-> TRUE, placed |-> placed + 1, gs |-> g1]
                      ELSE LinkFrom(s1, pino, i + 1, e, placed + 1, g1))))
             ELSE LinkFrom(st, pino, i + 1, e, placed, gs)))

\* a successful call also gives mid, the image as the write of the target
\* inode leaves it, before the write of the parent inode
create_link(st, target, link_path) ==
    With(find_inode_by_path(st, target), LAMBDA target_inode_num :
    IF target_inode_num = 0 \/ ~InodeOK(st, target_inode_num) THEN [st |-> st, ok |-> FALSE, at |-> "notarget", gs |-> <<>>]
    ELSE LET target_inode == read_inode(st, target_inode_num)
             name == NameOf(link_path)
         IN
    With(find_inode_by_path(st, ParentOf(link_path)), LAMBDA parent_inode_num :
    IF parent_inode_num = 0 \/ ~InodeOK(st, parent_inode_num) THEN [st |-> st, ok |-> FALSE, at |-> "noparent", gs |-> <<>>]
    ELSE LET parent_inode == read_inode(st, parent_inode_num) IN
    IF parent_inode.mode # FT_DIRECTORY THEN [st |-> st, ok |-> FALSE, at |-> "notdir", gs |-> <<>>]
    ELSE LET e == DirEntry(target_inode_num, DIRENT_SIZE, name, target_inode.mode % U8) IN
    With(LinkFrom(st, parent_inode, 0, e, 0, <<>>), LAMBDA r :
    IF ~r.ok THEN [st |-> r.st, ok |-> FALSE, at |-> "nospace", gs |-> r.gs]
    ELSE LET s1 == write_inode(r.st, target_inode_num,
                       [target_inode EXCEPT !.links_count = Inc32(@)])
             \* parent_inode was read before the link count was written: when the
             \* parent is the target itself this write restores the old count
             s2 == write_inode(s1, parent_inode_num, r.pino)
         IN  [st |-> s2, ok |-> TRUE, at |-> IF r.placed = 0 THEN "noentry" ELSE IF r.placed = 1 THEN "done" ELSE "twice",
              gs |-> r.gs, mid |-> s1])))

\* ------------------------------------------------------------ file payload
Seg(src, off, len) == [src |-> src, off |-> off, len |-> len]
\* the first n bytes of a payload block
RECURSIVE TakeBytes(_, _)
TakeBytes(segs, n) ==
    IF n <= 0 \/ segs = <<>> THEN <<>>
    ELSE IF Head(segs).len >= n THEN <<[Head(segs) EXCEPT !.len = n]>>
    ELSE <<Head(segs)>> \o TakeBytes(Tail(segs), n - Head(segs).len)

SetPtr(ptrs, k, v) ==
    [j \in 1..Max(Len(ptrs), k + 1) |-> IF j = k + 1 THEN v ELSE IF j <= Len(ptrs) THEN ptrs[j] ELSE 0]

\* ------------------------------------------------------- copy_from_system
\* one pass of a block loop of copy_from_system, on the loop's variables c:
\* allocate a block and write the next chunk of the host file
CopyStep(c) ==
    IF ~c.ok \/ c.remaining = 0 THEN c
    ELSE LET read_size == Min(c.remaining, BLOCK_SIZE) IN
         With(allocate_block(c.st), LAMBDA a :
             IF a.ret = 0 THEN [c EXCEPT !.st = a.st, !.ok = FALSE]
             ELSE [st |-> write_block(a.st, a.ret, DataBlock(<<Seg("host", c.off, read_size)>>)),
                   got |-> Append(c.got, a.ret), ok |-> TRUE,
                   remaining |-> c.remaining - read_size, off |-> c.off + read_size])
\* n passes in order
RECURSIVE CopyPasses(_, _)
CopyPasses(c, n) ==
    IF n <= 0 THEN c
    ELSE IF n = 1 THEN CopyStep(c)
    ELSE With(CopyPasses(c, n \div 2), LAMBDA h : CopyPasses(h, n - n \div 2))
\* one of the two block loops of copy_from_system: at most n passes while
\* bytes remain
CopyLoop(st, n, off, remaining, got) ==
    CopyPasses([st |-> st, got |-> got, ok |-> TRUE, remaining |-> remaining, off |-> off],
               Min(n, CeilDiv(remaining, BLOCK_SIZE)))

SetDirect(ino, got) ==
    [ino EXCEPT !.blocks = [k \in 0..DIRECT_BLOCKS |-> IF k < Len(got) THEN got[k + 1] ELSE @[k]]]

copy_from_system(st, file_size, virt_path) ==
    With(create_file(st, ParentOf(virt_path), NameOf(virt_path), FT_REGULAR), LAMBDA c :
    LET file_inode_num == c.ret IN
    IF file_inode_num = 0 THEN [st |-> c.st, ok |-> FALSE, at |-> c.at, gs |-> c.gs]
    ELSE LET file_inode == read_inode(c.st, file_inode_num) IN
    With(CopyLoop(c.st, DIRECT_BLOCKS, 0, file_size, <<>>), LAMBDA d :
    IF ~d.ok
    THEN \* "Failed to allocate block, clean up"
         LET s1 == write_inode(d.st, file_inode_num, SetDirect(file_inode, d.got))
         IN  [st |-> free_inode(s1, file_inode_num), ok |-> FALSE, at |-> "noblock", gs |-> c.gs]
    ELSE IF d.remaining = 0
    THEN [st |-> write_inode(d.st, file_inode_num,
                     [SetDirect(file_inode, d.got) EXCEPT !.size = file_size]),
          ok |-> TRUE, at |-> "done", gs |-> c.gs]
    ELSE With(allocate_block(d.st), LAMBDA ai :
    IF ai.ret = 0
    THEN LET s1 == FreeAll(ai.st, d.got)
             s2 == write_inode(s1, file_inode_num, file_inode)
         IN  [st |-> free_inode(s2, file_inode_num), ok |-> FALSE, at |-> "noblock", gs |-> c.gs]
    ELSE With(CopyLoop(ai.st, PTRS_PER_BLOCK, d.off, d.remaining, <<>>), LAMBDA x :
    IF ~x.ok
    THEN LET s1 == FreeAll(x.st, d.got)
             s2 == FreeAll(s1, x.got)
             s3 == free_block(s2, ai.ret)
             s4 == write_inode(s3, file_inode_num, file_inode)
         IN  [st |-> free_inode(s4, file_inode_num), ok |-> FALSE, at |-> "noblock", gs |-> c.gs]
    ELSE LET s1 == write_block(x.st, ai.ret, IndBlock(x.got))
             ino == [SetDirect(file_inode, d.got) EXCEPT !.blocks[DIRECT_BLOCKS] = ai.ret,
                                                         !.size = file_size]
         IN  [st |-> write_inode(s1, file_inode_num, ino), ok |-> TRUE, at |-> "done", gs |-> c.gs]))))

\* ---------------------------------------------------------- append_to_file
\* one pass of the loop that allocates new blocks, on its variables c; over records that a
\* pass has stored at indirect_pointers[indirect_index] with indirect_index
\* past the array's last element, crash the image as that first store found it
AppendStep(c) ==
    IF ~c.ok \/ c.bytes_left = 0 THEN c
    ELSE With(allocate_block(c.st), LAMBDA a :
    LET new_block == a.ret IN
    IF new_block = 0 THEN [c EXCEPT !.st = a.st, !.ok = FALSE]
    ELSE LET bytes_to_write == Min(c.bytes_left, BLOCK_SIZE)
             next == [c EXCEPT !.current_blocks = @ + 1, !.bytes_left = @ - bytes_to_write,
                               !.data_offset = @ + bytes_to_write]
         IN
    With(write_block(a.st, new_block, DataBlock(<<Seg("fill", c.data_offset, bytes_to_write)>>)),
         LAMBDA s1 :
    IF c.current_blocks < DIRECT_BLOCKS
    THEN [next EXCEPT !.st = s1, !.fino.blocks[c.current_blocks] = new_block]
    ELSE LET indirect_index == c.current_blocks - DIRECT_BLOCKS IN
    IF indirect_index = 0
    THEN With(allocate_block(s1), LAMBDA b :
         IF b.ret = 0 THEN [c EXCEPT !.st = free_block(b.st, new_block), !.ok = FALSE]
         ELSE [next EXCEPT !.st = write_block(b.st, b.ret, IndBlock(<<new_block>>)),
                           !.fino.blocks[DIRECT_BLOCKS] = b.ret])
    ELSE LET ib == c.fino.blocks[DIRECT_BLOCKS] IN
         IF ~BlockOK(s1, ib) THEN [c EXCEPT !.st = free_block(s1, new_block), !.ok = FALSE]
         ELSE IF indirect_index >= PTRS_PER_BLOCK
         THEN [next EXCEPT !.st = write_block(s1, ib, IndBlock(read_block(s1, ib).ptrs)),
                           !.over = TRUE, !.crash = IF c.over THEN @ ELSE s1]
         ELSE [next EXCEPT !.st = write_block(s1, ib,
                               IndBlock(SetPtr(read_block(s1, ib).ptrs, indirect_index, new_block)))]))
\* n passes in order
RECURSIVE AppendPasses(_, _)
AppendPasses(c, n) ==
    IF n <= 0 THEN c
    ELSE IF n = 1 THEN AppendStep(c)
    ELSE With(AppendPasses(c, n \div 2), LAMBDA h : AppendPasses(h, n - n \div 2))
\* "Allocate new blocks for remaining data"
AppendLoop(st, fino, current_blocks, bytes_left, data_offset) ==
    AppendPasses([st |-> st, fino |-> fino, ok |-> TRUE, current_blocks |-> current_blocks,
                  bytes_left |-> bytes_left, data_offset |-> data_offset,
                  over |-> FALSE, crash |-> st],
                 CeilDiv(bytes_left, BLOCK_SIZE))

\* word is what indirect_pointers[block_index - DIRECT_BLOCKS] yields when the
\* index is past the array's last element; wild tells that it was read
append_to_file(st, path, bytes, word) ==
    With(find_inode_by_path(st, path), LAMBDA file_inode_num :
    LET Fail(s, at) == [st |-> s, ok |-> FALSE, at |-> at, wild |-> FALSE, over |-> FALSE, crash |-> s] IN
    IF file_inode_num = 0 \/ ~InodeOK(st, file_inode_num) THEN Fail(st, "notfound")
    ELSE LET file_inode == read_inode(st, file_inode_num) IN
    IF file_inode.mode # FT_REGULAR THEN Fail(st, "notfile")
    ELSE LET current_size == file_inode.size
             current_blocks == CeilDiv(current_size, BLOCK_SIZE)
             position_in_last_block == current_size % BLOCK_SIZE
             fill == position_in_last_block > 0 /\ current_blocks > 0
             block_index == current_blocks - 1
             wild == fill /\ block_index - DIRECT_BLOCKS >= PTRS_PER_BLOCK
                          /\ BlockOK(st, file_inode.blocks[DIRECT_BLOCKS])
             block_num == IF block_index < DIRECT_BLOCKS THEN file_inode.blocks[block_index]
                          ELSE IF block_index - DIRECT_BLOCKS >= PTRS_PER_BLOCK THEN word
                          ELSE PtrAt(read_block(st, file_inode.blocks[DIRECT_BLOCKS]),
                                     block_index - DIRECT_BLOCKS)
             tail == Min(bytes, BLOCK_SIZE - position_in_last_block)
         IN
    IF fill /\ (IF block_index < DIRECT_BLOCKS THEN FALSE ELSE ~BlockOK(st, file_inode.blocks[DIRECT_BLOCKS]))
    THEN Fail(st, "ioerror")
    ELSE IF fill /\ ~BlockOK(st, block_num) THEN [Fail(st, "ioerror") EXCEPT !.wild = wild]
    ELSE LET s1 == IF fill
                   THEN write_block(st, block_num,
                            DataBlock(TakeBytes(read_block(st, block_num).segs, position_in_last_block)
                                      \o <<Seg("fill", 0, tail)>>))
                   ELSE st
             done == IF fill THEN tail ELSE 0
         IN
    With(AppendLoop(s1, file_inode, current_blocks, bytes - done, done), LAMBDA r :
    IF ~r.ok THEN [st |-> r.st, ok |-> FALSE, at |-> "nospace", wild |-> wild, over |-> r.over, crash |-> r.crash]
    ELSE [st |-> write_inode(r.st, file_inode_num, [r.fino EXCEPT !.size = @ + bytes]),
          ok |-> TRUE, at |-> "done", wild |-> wild, over |-> r.over, crash |-> r.crash]))

\* ----------------------------------------------------------- truncate_file
\* free_block on slots lo..hi-1 of the indirect pointers, each then set to 0
\* the indirect pointers written back as they were read, the freed slots kept
KeepPtrs(ptrs, lo, hi) == ptrs
ClearPtrs(ptrs, lo, hi) ==
    [j \in 1..Len(ptrs) |-> IF j - 1 >= lo /\ j - 1 < hi THEN 0 ELSE ptrs[j]]
PtrsIn(ptrs, lo, hi) ==
    [j \in 1..Max(0, Min(hi, Len(ptrs)) - lo) |-> ptrs[lo + j]]

\* over tells that the loop over the indirect pointers went past the array's
\* last element: a word read there is one of StackWords, so free_block frees
\* nothing for it, and a word that is not 0 is then set to 0 in place, a store
\* past the array; crash is the image as that store finds it
truncate_file(st, path, bytes) ==
    With(find_inode_by_path(st, path), LAMBDA file_inode_num :
    LET Fail(at) == [st |-> st, ok |-> FALSE, at |-> at, over |-> FALSE, crash |-> st] IN
    IF file_inode_num = 0 \/ ~InodeOK(st, file_inode_num) THEN Fail("notfound")
    ELSE LET file_inode == read_inode(st, file_inode_num) IN
    IF file_inode.mode # FT_REGULAR THEN Fail("notfile")
    ELSE IF file_inode.size < bytes THEN Fail("toobig")
    ELSE LET new_size == file_inode.size - bytes
             new_blocks == CeilDiv(new_size, BLOCK_SIZE)
             current_blocks == CeilDiv(file_inode.size, BLOCK_SIZE)
             ib == file_inode.blocks[DIRECT_BLOCKS]
             doind == new_blocks < current_blocks /\ current_blocks > DIRECT_BLOCKS /\ ib # 0
                      /\ BlockOK(st, ib)
             lo == IF new_blocks > DIRECT_BLOCKS THEN new_blocks - DIRECT_BLOCKS ELSE 0
             hi == current_blocks - DIRECT_BLOCKS
             ptrs == read_block(st, ib).ptrs
             ino1 == IF doind /\ new_blocks <= DIRECT_BLOCKS
                     THEN [file_inode EXCEPT !.blocks[DIRECT_BLOCKS] = 0] ELSE file_inode
             dlo == new_blocks
             dhi == Min(current_blocks, DIRECT_BLOCKS)
             dfree == [j \in 1..Max(0, dhi - dlo) |-> file_inode.blocks[dlo + j - 1]]
             ino2 == IF new_blocks < current_blocks
                     THEN [ino1 EXCEPT !.blocks = [k \in 0..DIRECT_BLOCKS |->
                               IF k >= dlo /\ k < dhi THEN 0 ELSE @[k]]]
                     ELSE ino1
         IN
    With(IF doind THEN FreeAll(st, PtrsIn(ptrs, lo, hi)) ELSE st, LAMBDA s1 :
    With(IF ~doind THEN s1
         ELSE IF new_blocks <= DIRECT_BLOCKS THEN free_block(s1, ib)
         ELSE write_block(s1, ib, IndBlock(ClearPtrs(ptrs, lo, hi))), LAMBDA s2 :
    LET s3 == IF new_blocks < current_blocks THEN FreeAll(s2, dfree) ELSE s2
    IN  [st |-> write_inode(s3, file_inode_num, [ino2 EXCEPT !.size = new_size]),
         ok |-> TRUE, at |-> "done", over |-> doind /\ hi > PTRS_PER_BLOCK, crash |-> s1])))

\* truncate_file called with whatever byte count the command line gave
TruncateUnguarded(st, path, bytes) == truncate_file(st, path, bytes)
\* the shell's truncate command: "Missing or invalid parameters" for an empty
\* path or bytes == 0, truncate_file otherwise
truncate_command(st, path, bytes) ==
    IF path = <<>> \/ bytes = 0
    THEN [st |-> st, ok |-> FALSE, at |-> "invalid", over |-> FALSE, crash |-> st]
    ELSE truncate_file(st, path, bytes)

\* --------------------------------------------------------- copy_to_system
\* a whole block as the host file would receive it were write_size not applied
WholeBlockBytes(blk, n) ==
    IF blk.kind = "data" THEN blk.segs \o <<Seg("zero", 0, BLOCK_SIZE)>>
    ELSE <<Seg(blk.kind, 0, BLOCK_SIZE)>>
\* the first n bytes of a block as the host file receives them
BlockBytes(blk, n) ==
    IF blk.kind = "data"
    THEN LET got == TakeBytes(blk.segs, n)
             have == IF blk.segs = <<>> THEN 0
                     ELSE Min(n, (blk.segs[1].len + (IF Len(blk.segs) > 1 THEN blk.segs[2].len ELSE 0)))
         IN  IF have < n THEN got \o <<Seg("zero", 0, n - have)>> ELSE got
    ELSE <<Seg(blk.kind, 0, n)>>

\* "Direct blocks": i < DIRECT_BLOCKS && remaining_size > 0 && blocks[i] != 0
RECURSIVE ReadDirect(_, _, _, _)
ReadDirect(st, ino, i, remaining) ==
    IF i >= DIRECT_BLOCKS \/ remaining = 0 \/ ino.blocks[i] = 0
    THEN [ok |-> TRUE, out |-> <<>>, remaining |-> remaining]
    ELSE IF ~BlockOK(st, ino.blocks[i])
    THEN [ok |-> FALSE, out |-> <<>>, remaining |-> remaining]
    ELSE LET write_size == Min(remaining, BLOCK_SIZE)
             rest == ReadDirect(st, ino, i + 1, remaining - write_size)
         IN  [ok |-> rest.ok, remaining |-> rest.remaining,
              out |-> BlockBytes(read_block(st, ino.blocks[i]), write_size) \o rest.out]

\* "Handle indirect blocks if needed": zero pointers are skipped
RECURSIVE ReadIndirect(_, _, _)
ReadIndirect(st, ptrs, remaining) ==
    IF ptrs = <<>> \/ remaining = 0 THEN [ok |-> TRUE, out |-> <<>>]
    ELSE IF Head(ptrs) = 0 THEN ReadIndirect(st, Tail(ptrs), remaining)
    ELSE IF ~BlockOK(st, Head(ptrs)) THEN [ok |-> FALSE, out |-> <<>>]
    ELSE LET write_size == Min(remaining, BLOCK_SIZE)
             rest == ReadIndirect(st, Tail(ptrs), remaining - write_size)
         IN  [ok |-> rest.ok,
              out |-> BlockBytes(read_block(st, Head(ptrs)), write_size) \o rest.out]

\* the result and the bytes written to the host file (the image is not changed)
copy_to_system(st, virt_path) ==
    LET file_inode_num == find_inode_by_path(st, virt_path) IN
    IF file_inode_num = 0 \/ ~InodeOK(st, file_inode_num) THEN [ok |-> FALSE, out |-> <<>>]
    ELSE LET file_inode == read_inode(st, file_inode_num) IN
    IF file_inode.mode # FT_REGULAR THEN [ok |-> FALSE, out |-> <<>>]
    ELSE LET d == ReadDirect(st, file_inode, 0, file_inode.size)
             ib == file_inode.blocks[DIRECT_BLOCKS]
         IN
    IF ~d.ok THEN [ok |-> FALSE, out |-> d.out]
    ELSE IF d.remaining > 0 /\ ib # 0
    THEN IF ~BlockOK(st, ib) THEN [ok |-> FALSE, out |-> d.out]
         ELSE LET x == ReadIndirect(st, read_block(st, ib).ptrs, d.remaining)
              IN  [ok |-> x.ok, out |-> d.out \o x.out]
    ELSE [ok |-> TRUE, out |-> d.out]

\* ------------------------------------------------- list_directory, disk usage
list_directory(st, path) ==
    LET dir_inode_num == find_inode_by_path(st, path) IN
    IF dir_inode_num = 0 \/ ~InodeOK(st, dir_inode_num) THEN <<>>
    ELSE LET dir_inode == read_inode(st, dir_inode_num) IN
    IF dir_inode.mode # FT_DIRECTORY THEN <<>>
    ELSE LET vs == Visited(st, dir_inode)
             shown == SelectSeq(vs, LAMBDA v :
                          LET e == EntryOf(st, v)
                          IN  ~IsDot(e) /\ ~IsDotDot(e) /\ InodeOK(st, e.inode))
         IN  [k \in 1..Len(shown) |->
                 LET e == EntryOf(st, shown[k])
                 IN  <<SubSeq(e.name, 1, Min(e.name_len, Len(e.name))), read_inode(st, e.inode).size>>]

get_disk_usage(st) ==
    <<st.sb.blocks_count - st.sb.free_blocks_count, st.sb.blocks_count>>

\* ------------------------------------------------------------ state machine
NoSuper == [magic |-> 0, block_size |-> 0, blocks_count |-> 0, free_blocks_count |-> 0,
            inodes_count |-> 0, free_inodes_count |-> 0, first_data_block |-> 0,
            first_inode_block |-> 0, bitmap_block |-> 0]
NoImage == [sb |-> NoSuper, bitmap |-> <<>>, inodes |-> <<>>, blocks |-> <<>>]

\* the host path given to copy_to_system: a file of the host's own, or the
\* path of the image file itself
SysPaths == {"host", "disk"}
\* copy_to_system(virt_path, sys_path) as it leaves the image: the host file
\* is opened for writing, which empties it, after the three checks of
\* virt_path; when it is the image file, every later read_block fails
copy_to_system_image(st, virt_path, sys_path) ==
    LET file_inode_num == find_inode_by_path(st, virt_path)
        r == copy_to_system(st, virt_path)
    IN
    IF file_inode_num = 0 \/ ~InodeOK(st, file_inode_num) THEN [st |-> st, ok |-> FALSE, cut |-> FALSE]
    ELSE LET file_inode == read_inode(st, file_inode_num) IN
    IF file_inode.mode # FT_REGULAR THEN [st |-> st, ok |-> FALSE, cut |-> FALSE]
    ELSE IF sys_path # "disk" THEN [st |-> st, ok |-> r.ok, cut |-> FALSE]
    ELSE [st |-> [st EXCEPT !.d = NoImage],
          ok |-> ~(file_inode.size # 0
                   /\ (file_inode.blocks[0] # 0 \/ file_inode.blocks[DIRECT_BLOCKS] # 0)),
          cut |-> TRUE]

Op(op, p1, p2, n, ok, at) == [op |-> op, p1 |-> p1, p2 |-> p2, n |-> n, ok |-> ok, at |-> at]

Init ==
    /\ phase = "new"
    /\ superblock = NoSuper
    /\ block_bitmap = <<>>
    /\ disk = NoImage
    /\ last = Op("none", <<>>, <<>>, 0, TRUE, "none")
    /\ nops = 0

\* the state an operation leaves, and the record of the call
Becomes(st, rec) ==
    /\ superblock' = st.sb
    /\ block_bitmap' = st.bm
    /\ disk' = st.d
    /\ last' = rec
    /\ nops' = nops + 1
    /\ UNCHANGED phase

\* the never-written headers gs an operation left where a later scan reads
\* them, each resolved to one of GarbageOutcomes
RECURSIVE Resolve(_, _, _)
Resolve(st, gs, ch) ==
    IF gs = <<>> THEN st
    ELSE LET b == Head(gs)[1]
             off == Head(gs)[2]
             blk == st.d.blocks[b]
             s1 == IF Head(ch) = "junk" /\ blk.kind = "dir" /\ off \notin DOMAIN blk.ents
                   THEN [st EXCEPT !.d.blocks[b] =
                            DirBlock([o \in DOMAIN blk.ents \cup {off} |->
                                         IF o = off THEN JunkEntry ELSE blk.ents[o]], TRUE)]
                   ELSE st
         IN  Resolve(s1, Tail(gs), Tail(ch))
\* every state the result r of an operation can leave
Outcomes(r) == {Resolve(r.st, r.gs, ch) : ch \in [1..Len(r.gs) -> GarbageOutcomes]}

CanRun == phase = "mounted" /\ nops < MaxOps

\* format: create_disk.  Setting a bit outside the vector is undefined: the
\* store lands in the vector's spare storage and create_disk goes on ("done"),
\* or the process is stopped there ("abort")
Format ==
    /\ phase = "new"
    /\ \E size \in FormatSizes :
        \E how \in (IF BitmapOverrun(size) THEN {"done", "abort"} ELSE {"done"}) :
        \E st \in {IF how = "done" THEN create_disk(size) ELSE create_disk_start(size)} :
            /\ superblock' = st.sb
            /\ block_bitmap' = st.bm
            /\ disk' = st.d
            /\ last' = Op("format", <<>>, <<>>, size, how = "done", how)
            /\ phase' = IF how = "done" THEN "created" ELSE "aborted"
    /\ UNCHANGED nops

Mount ==
    /\ phase = "created"
    /\ disk.sb.magic = FS_MAGIC
    /\ superblock' = disk.sb
    /\ block_bitmap' = disk.bitmap
    /\ phase' = "mounted"
    /\ last' = Op("mount", <<>>, <<>>, 0, TRUE, "done")
    /\ UNCHANGED <<disk, nops>>

\* mount_disk refuses the image (main then exits): read_superblock has
\* already replaced the in-core superblock
MountFail ==
    /\ phase = "created"
    /\ disk.sb.magic # FS_MAGIC
    /\ superblock' = disk.sb
    /\ phase' = "failed"
    /\ last' = Op("mount", <<>>, <<>>, 0, FALSE, "badmagic")
    /\ UNCHANGED <<block_bitmap, disk, nops>>

MkdirStep ==
    \E p \in Paths :
        \E r \in {create_directory(Cur, p)} :
            \E st \in Outcomes(r) :
                Becomes(st, Op("mkdir", p, <<>>, 0, r.ok, r.at))
Mkdir ==
    /\ CanRun
    /\ MkdirStep

RmdirStep ==
    \E p \in Paths :
        \E r \in {remove_directory(Cur, p)} :
            Becomes(r.st, Op("rmdir", p, <<>>, 0, r.ok, r.at))
Rmdir ==
    /\ CanRun
    /\ RmdirStep

Rm ==
    /\ CanRun
    /\ \E p \in Paths :
        \E r \in {remove_file(Cur, p)} :
            Becomes(r.st, Op("rm", p, <<>>, 0, r.ok, r.at))

Link ==
    /\ CanRun
    /\ \E tl \in LinkPairs :
        \E r \in {create_link(Cur, tl[1], tl[2])} :
            \E st \in Outcomes(r) :
                Becomes(st, Op("link", tl[1], tl[2], 0, r.ok, r.at))

CopyFrom ==
    /\ CanRun
    /\ \E p \in FilePaths, n \in HostSizes :
        \E r \in {copy_from_system(Cur, n, p)} :
            \E st \in Outcomes(r) :
                Becomes(st, Op("copy_from", p, <<>>, n, r.ok, r.at))

\* every result append_to_file can give: one for each word in StackWords when
\* the call reads past the indirect pointers
AppendCalls(st, p, n) ==
    With(append_to_file(st, p, n, 0), LAMBDA r0 :
         IF r0.wild THEN {append_to_file(st, p, n, w) : w \in StackWords} ELSE {r0})
\* the call returns; or, having stored past the indirect pointers, the process
\* is stopped with the image as the store found it
Ends(op, p, n, r) ==
    \E how \in (IF r.over THEN {"returns", "stopped"} ELSE {"returns"}) :
        IF how = "returns"
        THEN Becomes(r.st, Op(op, p, <<>>, n, r.ok, r.at))
        ELSE /\ superblock' = r.crash.sb
             /\ block_bitmap' = r.crash.bm
             /\ disk' = r.crash.d
             /\ last' = Op(op, p, <<>>, n, FALSE, "stopped")
             /\ nops' = nops + 1
             /\ phase' = "aborted"
AppendEnds(p, n, r) == Ends("append", p, n, r)
TruncateEnds(p, n, r) == Ends("truncate", p, n, r)

AppendOp ==
    /\ CanRun
    /\ \E p \in FilePaths, n \in AppendSizes :
        \E r \in AppendCalls(Cur, p, n) :
            AppendEnds(p, n, r)

TruncateOp ==
    /\ CanRun
    /\ \E p \in FilePaths, n \in TruncateSizes :
        \E r \in {truncate_command(Cur, p, n)} :
            TruncateEnds(p, n, r)

Next ==
    \/ Format
    \/ Mount
    \/ MountFail
    \/ Mkdir
    \/ Rmdir
    \/ Rm
    \/ Link
    \/ CopyFrom
    \/ AppendOp
    \/ TruncateOp

Spec == Init /\ [][Next]_vars

\* a session of mkdir and rmdir commands only, MaxDirOps of them
CanRunDir == phase = "mounted" /\ nops < MaxDirOps
DirMkdir ==
    /\ CanRunDir
    /\ MkdirStep
DirRmdir ==
    /\ CanRunDir
    /\ RmdirStep
DirNext ==
    \/ Format
    \/ Mount
    \/ MountFail
    \/ DirMkdir
    \/ DirRmdir
DirSpec == Init /\ [][DirNext]_vars

\* a session of copyfrom, append and truncate commands only, MaxFileOps of them
CanRunFile == phase = "mounted" /\ nops < MaxFileOps
FileCopyFrom ==
    /\ CanRunFile
    /\ \E p \in FilePaths, n \in FileHostSizes :
        \E r \in {copy_from_system(Cur, n, p)} :
            \E st \in Outcomes(r) :
                Becomes(st, Op("copy_from", p, <<>>, n, r.ok, r.at))
FileAppend ==
    /\ CanRunFile
    /\ \E p \in FilePaths, n \in FileAppendSizes :
        \E r \in AppendCalls(Cur, p, n) :
            AppendEnds(p, n, r)
FileTruncate ==
    /\ CanRunFile
    /\ \E p \in FilePaths, n \in TruncateSizes :
        \E r \in {truncate_command(Cur, p, n)} :
            TruncateEnds(p, n, r)
FileNext ==
    \/ Format
    \/ Mount
    \/ MountFail
    \/ FileCopyFrom
    \/ FileAppend
    \/ FileTruncate
FileSpec == Init /\ [][FileNext]_vars

\* a session of mkdir, rmdir and rm over the root's own path and one name in it
CanRunRoot == phase = "mounted" /\ nops < MaxRootOps
RootMkdir ==
    /\ CanRunRoot
    /\ \E p \in RootPaths :
        \E r \in {create_directory(Cur, p)} :
            \E st \in Outcomes(r) :
                Becomes(st, Op("mkdir", p, <<>>, 0, r.ok, r.at))
RootRmdir ==
    /\ CanRunRoot
    /\ \E p \in RootPaths :
        \E r \in {remove_directory(Cur, p)} :
            Becomes(r.st, Op("rmdir", p, <<>>, 0, r.ok, r.at))
RootRm ==
    /\ CanRunRoot
    /\ \E p \in RootPaths :
        \E r \in {remove_file(Cur, p)} :
            Becomes(r.st, Op("rm", p, <<>>, 0, r.ok, r.at))
RootNext ==
    \/ Format
    \/ Mount
    \/ MountFail
    \/ RootMkdir
    \/ RootRmdir
    \/ RootRm
RootSpec == Init /\ [][RootNext]_vars

\* a session of copyfrom and append commands on an image large enough for a
\* file of DIRECT_BLOCKS + PTRS_PER_BLOCK blocks and more
CanRunBig == phase = "mounted" /\ nops < MaxBigOps
BigFormat ==
    /\ phase = "new"
    /\ \E size \in BigFormatSizes :
        \E st \in {create_disk(size)} :
            /\ superblock' = st.sb
            /\ block_bitmap' = st.bm
            /\ disk' = st.d
            /\ last' = Op("format", <<>>, <<>>, size, TRUE, "done")
            /\ phase' = "created"
    /\ UNCHANGED nops
BigCopyFrom ==
    /\ CanRunBig
    /\ \E p \in FilePaths, n \in BigHostSizes :
        \E r \in {copy_from_system(Cur, n, p)} :
            \E st \in Outcomes(r) :
                Becomes(st, Op("copy_from", p, <<>>, n, r.ok, r.at))
BigAppend ==
    /\ CanRunBig
    /\ \E p \in FilePaths, n \in BigAppendSizes :
        \E r \in AppendCalls(Cur, p, n) :
            AppendEnds(p, n, r)
BigNext ==
    \/ BigFormat
    \/ Mount
    \/ BigCopyFrom
    \/ BigAppend
BigSpec == Init /\ [][BigNext]_vars

\* a session that formats an image of any small size, or of one MiB, and mounts it
UsageSizes ==
    {k * BLOCK_SIZE + d : k \in 0..(MaxUsageBlocks - 1), d \in {1, BLOCK_SIZE}} \cup {1048576}
UsageFormat ==
    /\ phase = "new"
    /\ \E size \in UsageSizes :
        \E how \in (IF BitmapOverrun(size) THEN {"done", "abort"} ELSE {"done"}) :
        \E st \in {IF how = "done" THEN create_disk(size) ELSE create_disk_start(size)} :
            /\ superblock' = st.sb
            /\ block_bitmap' = st.bm
            /\ disk' = st.d
            /\ last' = Op("format", <<>>, <<>>, size, how = "done", how)
            /\ phase' = IF how = "done" THEN "created" ELSE "aborted"
    /\ UNCHANGED nops
UsageNext ==
    \/ UsageFormat
    \/ Mount
    \/ MountFail
UsageSpec == Init /\ [][UsageNext]_vars

\* a session of copyfrom, copyto, ls and usage commands
CanRunRead == phase = "mounted" /\ nops < MaxReadOps
ReadCopyFrom ==
    /\ CanRunRead
    /\ \E p \in FilePaths, n \in FileHostSizes :
        \E r \in {copy_from_system(Cur, n, p)} :
            \E st \in Outcomes(r) :
                Becomes(st, Op("copy_from", p, <<>>, n, r.ok, r.at))
\* copyto: once the image file has been emptied the session is followed no further
CopyTo ==
    /\ CanRunRead
    /\ \E p \in FilePaths, sys \in SysPaths :
        \E r \in {copy_to_system_image(Cur, p, sys)} :
            /\ superblock' = r.st.sb
            /\ block_bitmap' = r.st.bm
            /\ disk' = r.st.d
            /\ last' = Op("copy_to", p, <<>>, 0, r.ok, sys)
            /\ nops' = nops + 1
            /\ phase' = IF r.cut THEN "emptied" ELSE phase
Ls ==
    /\ CanRunRead
    /\ \E p \in {P_root, P_a} :
        /\ last' = Op("ls", p, <<>>, Len(list_directory(Cur, p)), TRUE, "done")
        /\ nops' = nops + 1
        /\ UNCHANGED <<phase, superblock, block_bitmap, disk>>
Usage ==
    /\ CanRunRead
    /\ last' = Op("usage", <<>>, <<>>, get_disk_usage(Cur)[1], TRUE, "done")
    /\ nops' = nops + 1
    /\ UNCHANGED <<phase, superblock, block_bitmap, disk>>
ReadNext ==
    \/ Format
    \/ Mount
    \/ MountFail
    \/ ReadCopyFrom
    \/ CopyTo
    \/ Ls
    \/ Usage
ReadSpec == Init /\ [][ReadNext]_vars

\* ------------------------------------------------------------- observations
\* the program state after the step
CurNext == [sb |-> superblock', bm |-> block_bitmap', d |-> disk']
PublicOps == {"format", "mkdir", "rmdir", "rm", "link", "append", "truncate", "copy_from"}
\* the number of set bits of the bitmap
Popcount(bm) == Cardinality({i \in DOMAIN bm : bm[i]})
Range(f) == {f[x] : x \in DOMAIN f}

\* the entries present in the blocks of directory inode ino, wherever they lie
\* in a block and whatever precedes them: <<block, offset>> with inode # 0
Present(st, ino) ==
    UNION {{<<b, o>> : o \in {x \in DOMAIN read_block(st, b).ents :
                                   read_block(st, b).ents[x].inode # 0}} :
           b \in {y \in Range(ScanBlocks(ino)) : BlockOK(st, y)}}
\* an entry is live when it names an inode in use
Live(st, e) == e.inode # 0 /\ InodeOK(st, e.inode) /\ read_inode(st, e.inode).links_count # 0
\* the inode numbers of the directories in use
Dirs(st) == {n \in 1..st.sb.inodes_count :
                st.d.inodes[n].mode = FT_DIRECTORY /\ st.d.inodes[n].links_count # 0}

\* the inodes reachable from the root through present entries
RECURSIVE ReachFrom(_, _)
ReachFrom(st, seen) ==
    LET more == {n \in 1..st.sb.inodes_count :
                    \E m \in seen :
                        /\ st.d.inodes[m].mode = FT_DIRECTORY
                        /\ \E v \in Present(st, st.d.inodes[m]) : EntryOf(st, v).inode = n} \ seen
    IN  IF more = {} THEN seen ELSE ReachFrom(st, seen \cup more)
Reachable(st) == ReachFrom(st, {1})

\* the blocks referenced from the direct slots, the indirect slot and the
\* indirect block of inode n
RefBlocks(st, n) ==
    LET ino == st.d.inodes[n]
        ib == ino.blocks[DIRECT_BLOCKS]
    IN  ({ino.blocks[k] : k \in 0..DIRECT_BLOCKS}
         \cup (IF ib # 0 /\ BlockOK(st, ib) THEN Range(read_block(st, ib).ptrs) ELSE {})) \ {0}

FileSize(st, path) ==
    LET n == find_inode_by_path(st, path)
    IN  IF InodeOK(st, n) THEN read_inode(st, n).size ELSE 0

\* ----------------------------------------------------------------- claims

\* C1: after every public operation (format, mkdir, rmdir, rm, link, append,
\* truncate, copy_from_system), successful or not, superblock.free_blocks_count
\* equals blocks_count minus the number of set bits of the block bitmap.
C1_FreeCountMatchesBitmap ==
    (phase \in {"created", "mounted"} /\ last.op \in PublicOps)
        => superblock.free_blocks_count = superblock.blocks_count - Popcount(block_bitmap)
\* format of a one-block image has returned success: free_blocks_count is
\* 1 - 2 - 0 as a uint32_t while the one bit of the bitmap is set
C1_OneBlockFormat ==
    /\ phase = "created" /\ last.op = "format" /\ last.ok
    /\ superblock.blocks_count = 1 /\ Popcount(block_bitmap) = 1
    /\ superblock.free_blocks_count = U32_MAX
\* the same equation on every image of at least four blocks (one inode or more)
C1_FreeCountMatchesBitmapFromFourBlocks ==
    (phase \in {"created", "mounted"} /\ superblock.blocks_count >= 4)
        => superblock.free_blocks_count = superblock.blocks_count - Popcount(block_bitmap)

\* C2: after any sequence of operations, failed ones included, a bitmap bit is
\* set exactly for the superblock, the bitmap block, the inode-table blocks and
\* the blocks referenced from a direct or indirect slot of an inode reachable
\* from the root.
C2_BitmapMatchesReachability ==
    phase = "mounted"
        => \A b \in DOMAIN block_bitmap :
               block_bitmap[b] <=> (\/ b < superblock.first_data_block
                                    \/ \E n \in Reachable(Cur) : b \in RefBlocks(Cur, n))
\* a failed append has left a block allocated that no inode references
C2_LeakedBlock ==
    /\ phase = "mounted" /\ last.op = "append" /\ ~last.ok
    /\ \E b \in DOMAIN block_bitmap :
           /\ block_bitmap[b] /\ b >= superblock.first_data_block
           /\ \A n \in 1..superblock.inodes_count : b \notin RefBlocks(Cur, n)

\* C3: when append_to_file fails because allocate_block returns 0 partway, every
\* block allocated in the call is freed again: free_blocks_count and the bitmap
\* are as before the call, and the size of the file is unchanged.
C3_AppendFailureRestores ==
    [][(last'.op = "append" /\ last'.at = "nospace")
          => /\ superblock'.free_blocks_count = superblock.free_blocks_count
             /\ block_bitmap' = block_bitmap
             /\ FileSize(CurNext, last'.p1) = FileSize(Cur, last'.p1)]_vars
\* an append has failed for want of a block, the size is what it was, and no
\* block is free any more
C3_AppendFailedPartway ==
    /\ last.op = "append" /\ last.at = "nospace"
    /\ superblock.free_blocks_count = 0
    /\ FileSize(Cur, last.p1) = 10
    /\ Cardinality(RefBlocks(Cur, find_inode_by_path(Cur, last.p1))) = 1

\* C4: when copy_from_system fails because a block allocation fails after the
\* file inode was created, no directory entry for virt_path is left in the
\* parent, and the inode and every block allocated are free again.
C4_CopyFailureLeavesNothing ==
    [][(last'.op = "copy_from" /\ last'.at = "noblock")
          => /\ find_inode_by_path(CurNext, last'.p1) = 0
             /\ superblock'.free_inodes_count = superblock.free_inodes_count
             /\ block_bitmap' = block_bitmap]_vars
\* a copy has failed for want of a block and its path still resolves, to an
\* inode that is free
C4_EntryOfFailedCopy ==
    /\ last.op = "copy_from" /\ last.at = "noblock"
    /\ find_inode_by_path(Cur, last.p1) # 0
    /\ read_inode(Cur, find_inode_by_path(Cur, last.p1)).links_count = 0

\* the names a listing shows, in order
Names(ls) == [k \in 1..Len(ls) |-> ls[k][1]]
\* a sequence without the first occurrence of x
RemoveFirst(seq, x) ==
    LET hit == {k \in 1..Len(seq) : seq[k] = x}
    IN  IF hit = {} THEN seq
        ELSE LET f == CHOOSE k \in hit : \A j \in hit : k <= j
             IN  SubSeq(seq, 1, f - 1) \o SubSeq(seq, f + 1, Len(seq))
\* the path of name in the directory dir
Join(dir, name) == IF dir = <<"/">> THEN dir \o name ELSE dir \o <<"/">> \o name
\* the directory at path holds a live entry that satisfies Want
LiveEntryIn(st, path, Want(_)) ==
    LET n == find_inode_by_path(st, path)
    IN  /\ InodeOK(st, n)
        /\ read_inode(st, n).mode = FT_DIRECTORY
        /\ \E v \in Present(st, read_inode(st, n)) :
               Live(st, EntryOf(st, v)) /\ Want(EntryOf(st, v))

\* C5: hard-link scenario.  With /x made by copy_from_system and /y its link
\* (one regular inode, link count 2), after rm(/x) the listing of the root shows
\* y and not x, /y resolves to the original inode with the original contents, and
\* a following rm(/y) succeeds and gives back the blocks of the file.
C5_HardLinkSurvivesRemove ==
    [][\A x \in FilePaths, y \in FilePaths :
          LET i == find_inode_by_path(Cur, x)
              after == remove_file(CurNext, y)
          IN  (/\ x # y
               /\ last'.op = "rm" /\ last'.p1 = x /\ last'.ok
               /\ InodeOK(Cur, i) /\ find_inode_by_path(Cur, y) = i
               /\ read_inode(Cur, i).mode = FT_REGULAR
               /\ read_inode(Cur, i).links_count = 2)
              => /\ NameOf(y) \in Range(Names(list_directory(CurNext, <<"/">>)))
                 /\ NameOf(x) \notin Range(Names(list_directory(CurNext, <<"/">>)))
                 /\ find_inode_by_path(CurNext, y) = i
                 /\ copy_to_system(CurNext, y) = copy_to_system(Cur, x)
                 /\ after.ok
                 /\ after.st.sb.free_blocks_count
                        = superblock.free_blocks_count + Cardinality(RefBlocks(Cur, i))]_vars
\* rm has removed one of two names of a file: the inode is in use with link
\* count 1 and an entry names it, yet neither /a nor /b resolves
C5_LinkLostAfterRemove ==
    /\ last.op = "rm" /\ last.ok /\ last.at = "unlinked" /\ last.p1 \in FilePaths
    /\ find_inode_by_path(Cur, P_a) = 0 /\ find_inode_by_path(Cur, P_b) = 0
    /\ LiveEntryIn(Cur, <<"/">>, LAMBDA e :
           /\ NameMatches(e, <<"a">>) \/ NameMatches(e, <<"b">>)
           /\ read_inode(Cur, e.inode).mode = FT_REGULAR
           /\ read_inode(Cur, e.inode).links_count = 1
           /\ read_inode(Cur, e.inode).size = 10)

\* C6: traversal skips tombstones.  When rm or rmdir removes one entry e of a
\* directory that listed the names E, list_directory then returns E without e,
\* and every remaining name of E resolves through find_inode_by_path.
C6_RemovalKeepsOtherEntries ==
    [][(last'.op \in {"rm", "rmdir"} /\ last'.ok)
          => LET dir == ParentOf(last'.p1)
                 rest == RemoveFirst(Names(list_directory(Cur, dir)), NameOf(last'.p1))
             IN  /\ Names(list_directory(CurNext, dir)) = rest
                 /\ \A k \in 1..Len(rest) :
                        find_inode_by_path(CurNext, Join(dir, rest[k])) # 0]_vars
\* after a removal the root holds a live entry that its listing does not show
C6_EntryHiddenByTombstone ==
    /\ last.op \in {"rm", "rmdir"} /\ last.ok
    /\ LiveEntryIn(Cur, <<"/">>, LAMBDA e :
           /\ ~IsDot(e) /\ ~IsDotDot(e)
           /\ e.name \notin Range(Names(list_directory(Cur, <<"/">>))))

\* C7: create_file (so mkdir and copy_from_system) fails and changes nothing on
\* disk whenever the parent directory holds a live entry with the requested
\* name, in whichever slot or block, whatever was removed there before.
C7_ExistingNameRefused ==
    [][(/\ last'.op \in {"mkdir", "copy_from"}
        /\ LiveEntryIn(Cur, ParentOf(last'.p1), LAMBDA e : NameMatches(e, NameOf(last'.p1))))
          => (~last'.ok /\ disk' = disk)]_vars
\* a create has succeeded and its directory holds two live entries of that name
C7_DuplicateName ==
    /\ last.op \in {"mkdir", "copy_from"} /\ last.ok
    /\ LET n == find_inode_by_path(Cur, ParentOf(last.p1))
       IN  /\ InodeOK(Cur, n)
           /\ \E v, w \in Present(Cur, read_inode(Cur, n)) :
                  /\ v # w
                  /\ Live(Cur, EntryOf(Cur, v)) /\ Live(Cur, EntryOf(Cur, w))
                  /\ EntryOf(Cur, v).inode # EntryOf(Cur, w).inode
                  /\ NameMatches(EntryOf(Cur, v), NameOf(last.p1))
                  /\ NameMatches(EntryOf(Cur, w), NameOf(last.p1))

\* C8: remove_directory fails and leaves the image unchanged whenever the
\* directory holds a live entry other than . and .., also when an earlier entry
\* of the directory was removed before the live one.
C8_NonEmptyDirectoryKept ==
    [][(/\ last'.op = "rmdir"
        /\ LiveEntryIn(Cur, last'.p1, LAMBDA e : ~IsDot(e) /\ ~IsDotDot(e)))
          => (~last'.ok /\ disk' = disk)]_vars
\* rmdir has succeeded and a directory in use is left whose .. names a free
\* inode and which no entry of a directory in use names
C8_ChildOrphanedByRmdir ==
    /\ last.op = "rmdir" /\ last.ok
    /\ \E n \in Dirs(Cur) :
           /\ n # 1
           /\ LET up == HeaderAt(read_block(Cur, read_inode(Cur, n).blocks[0]), DIRENT_SIZE)
              IN  IsDotDot(up) /\ InodeOK(Cur, up.inode)
                  /\ read_inode(Cur, up.inode).links_count = 0
           /\ \A m \in Dirs(Cur) : \A v \in Present(Cur, read_inode(Cur, m)) :
                  EntryOf(Cur, v).inode = n => m = n

\* C9: in every directory, the root and those made by mkdir, slot 0 of
\* blocks[0] is the entry . naming the directory itself and slot 1 is the entry
\* .. naming its parent, both at the fixed stride sizeof(DirEntry); also after
\* any later create, link or remove inside the directory.
C9_DotEntriesInPlace ==
    phase \in {"created", "mounted"}
        => \A n \in Dirs(Cur) :
               LET ino == read_inode(Cur, n)
                   blk == read_block(Cur, ino.blocks[0])
                   e0 == HeaderAt(blk, 0)
                   e1 == HeaderAt(blk, DIRENT_SIZE)
               IN  /\ ino.blocks[0] # 0
                   /\ IsDot(e0) /\ e0.inode = n /\ e0.rec_len = DIRENT_SIZE
                   /\ IsDotDot(e1) /\ e1.rec_len = DIRENT_SIZE
                   /\ \/ n = 1 /\ e1.inode = 1
                      \/ /\ e1.inode \in Dirs(Cur)
                         /\ \E v \in Present(Cur, read_inode(Cur, e1.inode)) :
                                LET e == EntryOf(Cur, v)
                                IN  e.inode = n /\ ~IsDot(e) /\ ~IsDotDot(e)
\* an entry made inside a directory lies at offset 12 of its first block, and
\* the bytes of slot 1 no longer hold ..
C9_DotDotOverwritten ==
    /\ last.op \in {"mkdir", "link"} /\ last.ok
    /\ \E n \in Dirs(Cur) :
           LET blk == read_block(Cur, read_inode(Cur, n).blocks[0])
           IN  /\ n # 1
               /\ HeaderAt(blk, 0).inode = n /\ IsDot(HeaderAt(blk, 0))
               /\ DOT_REC_LEN \in DOMAIN blk.ents
               /\ Live(Cur, blk.ents[DOT_REC_LEN])
               /\ HeaderAt(blk, DIRENT_SIZE) = ZeroEntry

\* the entries, in the blocks of the directories in use, whose inode field is i
EntriesNaming(st, i) ==
    UNION {{v \in Present(st, read_inode(st, m)) : EntryOf(st, v).inode = i} : m \in Dirs(st)}

\* C10: after every successful operation, for every inode i with
\* links_count > 0 the number of directory entries anywhere in the tree whose
\* inode field is i equals the links_count of i.
C10_LinkCountIsEntryCount ==
    (phase \in {"created", "mounted"} /\ last.ok)
        => \A i \in 1..superblock.inodes_count :
               read_inode(Cur, i).links_count # 0
                   => Cardinality(EntriesNaming(Cur, i)) = read_inode(Cur, i).links_count
\* a successful operation has left a regular file with link count 1 that two
\* entries, neither of them . or .., name
C10_TwoNamesOneLink ==
    /\ phase = "mounted" /\ last.ok
    /\ \E i \in 1..superblock.inodes_count :
           /\ read_inode(Cur, i).mode = FT_REGULAR
           /\ read_inode(Cur, i).links_count = 1
           /\ Cardinality({v \in EntriesNaming(Cur, i) :
                               ~IsDot(EntryOf(Cur, v)) /\ ~IsDotDot(EntryOf(Cur, v))}) = 2

\* the inodes of the table whose on-disk links_count is 0
FreeInodes(st) == {i \in 1..st.sb.inodes_count : read_inode(st, i).links_count = 0}

\* C11: after every operation, superblock.free_inodes_count equals the number of
\* inodes in 1..inodes_count whose on-disk links_count is 0.
C11_FreeInodeCountMatches ==
    (phase \in {"created", "mounted"} /\ last.op \in PublicOps)
        => superblock.free_inodes_count = Cardinality(FreeInodes(Cur))
\* rm has taken a link from an inode that had none: its links_count is
\* 0xFFFFFFFF, it is no longer counted free, and free_inodes_count is as before
C11_LinkCountBelowZero ==
    /\ phase = "mounted" /\ last.op = "rm" /\ last.at = "unlinked"
    /\ superblock.inodes_count = 5
    /\ \E i \in 1..superblock.inodes_count : read_inode(Cur, i).links_count = U32_MAX
    /\ superblock.free_inodes_count = Cardinality(FreeInodes(Cur)) + 1

\* the data blocks inode n references: its direct slots and the slots of its
\* indirect block
DataRefs(st, n) ==
    LET ino == read_inode(st, n)
        ib == ino.blocks[DIRECT_BLOCKS]
    IN  ({ino.blocks[k] : k \in 0..(DIRECT_BLOCKS - 1)}
         \cup (IF ib # 0 /\ BlockOK(st, ib) THEN Range(read_block(st, ib).ptrs) ELSE {})) \ {0}

\* C12: after any sequence of operations no data block is referenced, through a
\* direct slot or an indirect-block slot, by two different inodes.
C12_NoSharedDataBlock ==
    phase \in {"created", "mounted"}
        => \A i, j \in 1..superblock.inodes_count :
               i # j => DataRefs(Cur, i) \cap DataRefs(Cur, j) = {}
\* two files hold data blocks, one of them through an indirect block, and a
\* block freed earlier in the session has been allocated again
C12_TwoFilesWithBlocks ==
    /\ phase = "mounted" /\ last.op = "copy_from" /\ last.ok /\ nops >= 3
    /\ \E i, j \in 1..superblock.inodes_count :
           /\ i # j
           /\ read_inode(Cur, i).mode = FT_REGULAR /\ read_inode(Cur, j).mode = FT_REGULAR
           /\ read_inode(Cur, i).blocks[DIRECT_BLOCKS] # 0
           /\ DataRefs(Cur, i) # {} /\ DataRefs(Cur, j) # {}

\* C13: after any sequence of operations, every non-zero direct pointer and
\* every non-zero indirect-block pointer stored in any inode of the inode table
\* names a block whose bitmap bit is set.
C13_PointersAreAllocated ==
    phase \in {"created", "mounted"}
        => \A n \in 1..superblock.inodes_count :
               \A b \in RefBlocks(Cur, n) : BlockOK(Cur, b) /\ block_bitmap[b]
\* truncate_file has freed a slot of an indirect block that the file keeps
C13_IndirectSlotFreed ==
    /\ phase = "mounted" /\ last.op = "truncate" /\ last.ok
    /\ \E n \in 1..superblock.inodes_count :
           LET ib == read_inode(Cur, n).blocks[DIRECT_BLOCKS]
           IN  /\ ib # 0 /\ BlockOK(Cur, ib)
               /\ \E k \in 0..(Len(read_block(Cur, ib).ptrs) - 1) :
                      PtrAt(read_block(Cur, ib), k) = 0

\* C14: after any sequence of operations, rmdir and rm applied to the path "/"
\* or "" included, inode 1 is still a directory with links_count > 0 whose `..`
\* entry is 1 and whose first block is allocated.
C14_RootSurvives ==
    phase = "mounted"
        => /\ InodeOK(Cur, 1)
           /\ LET root == read_inode(Cur, 1)
                  b == root.blocks[0]
              IN  /\ root.mode = FT_DIRECTORY
                  /\ root.links_count # 0
                  /\ b # 0 /\ BlockOK(Cur, b) /\ block_bitmap[b]
                  /\ IsDotDot(HeaderAt(read_block(Cur, b), DIRENT_SIZE))
                  /\ HeaderAt(read_block(Cur, b), DIRENT_SIZE).inode = 1
\* rmdir or rm of the root's own path has returned success: inode 1 is free and
\* the block that held the root directory is free
C14_RootRemoved ==
    /\ phase = "mounted" /\ last.op \in {"rmdir", "rm"} /\ last.ok
    /\ last.p1 \in {P_root, P_empty}
    /\ read_inode(Cur, 1).mode = FT_NONE /\ read_inode(Cur, 1).links_count = 0
    /\ ~block_bitmap[superblock.first_data_block]

\* C15: mkdir(P) followed immediately by rmdir(P), both successful, leaves
\* free_blocks_count and free_inodes_count equal to their values before the
\* mkdir, for every state of the parent directory, one whose existing directory
\* blocks have no free slot included.
C15_MkdirRmdirRestoresCounts ==
    [][(last'.op = "mkdir" /\ last'.ok)
          => LET r == remove_directory(CurNext, last'.p1)
             IN  r.ok => /\ r.st.sb.free_blocks_count = superblock.free_blocks_count
                         /\ r.st.sb.free_inodes_count = superblock.free_inodes_count]_vars
\* rmdir(/a/a) has succeeded after a mkdir(/a/a) that found no slot in the one
\* block of /a and gave /a a second block: /a keeps that block, so of the 16
\* blocks free after format 14 are free where 15 were free before the mkdir
C15_ParentKeepsNewBlock ==
    /\ phase = "mounted" /\ last.op = "rmdir" /\ last.ok /\ last.p1 = P_aa
    /\ nops = 3
    /\ LET n == find_inode_by_path(Cur, P_a)
       IN  /\ InodeOK(Cur, n)
           /\ read_inode(Cur, n).mode = FT_DIRECTORY
           /\ read_inode(Cur, n).blocks[1] # 0
           /\ Present(Cur, [read_inode(Cur, n) EXCEPT !.blocks[0] = 0]) = {}
    /\ superblock.free_blocks_count = 14
    /\ superblock.free_inodes_count = 3

\* the entries of the directory at path dir whose inode field is i
EntriesFor(st, dir, i) ==
    LET pn == find_inode_by_path(st, dir)
    IN  IF InodeOK(st, pn)
        THEN {v \in Present(st, read_inode(st, pn)) : EntryOf(st, v).inode = i}
        ELSE {}

\* C18: after a successful create_link(target, link_path), link_path resolves
\* to the target's inode, exactly one new directory entry referencing that
\* inode exists in link_path's parent, and the target's links_count is exactly
\* one greater than before; also when the parent's existing blocks are full or
\* their first slot is free.
C18_LinkAddsOneEntry ==
    [][(last'.op = "link" /\ last'.ok)
          => LET target == find_inode_by_path(Cur, last'.p1)
                 parent == ParentOf(last'.p2)
             IN  /\ find_inode_by_path(CurNext, last'.p2) = target
                 /\ Cardinality(EntriesFor(CurNext, parent, target))
                        = Cardinality(EntriesFor(Cur, parent, target)) + 1
                 /\ read_inode(CurNext, target).links_count
                        = Inc32(read_inode(Cur, target).links_count)]_vars
\* a successful create_link into a parent whose second block had its first slot
\* free has left the entry there and again in a newly allocated third block
C18_EntryPlacedTwice ==
    /\ phase = "mounted" /\ last.op = "link" /\ last.ok /\ last.at = "twice"
    /\ LET target == find_inode_by_path(Cur, last.p1)
           pn == find_inode_by_path(Cur, ParentOf(last.p2))
       IN  /\ InodeOK(Cur, pn) /\ read_inode(Cur, pn).mode = FT_DIRECTORY
           /\ read_inode(Cur, pn).blocks[1] # 0 /\ read_inode(Cur, pn).blocks[2] # 0
           /\ \A k \in {1, 2} :
                  LET e == HeaderAt(read_block(Cur, read_inode(Cur, pn).blocks[k]), 0)
                  IN  e.inode = target /\ NameMatches(e, NameOf(last.p2))

\* the pointer to the k-th data block of inode ino (k from 0): blocks[k] for
\* k < 12, slot k - 12 of the indirect block otherwise
DataPtr(st, ino, k) ==
    IF k < DIRECT_BLOCKS THEN ino.blocks[k]
    ELSE LET ib == ino.blocks[DIRECT_BLOCKS]
         IN  IF ib # 0 /\ BlockOK(st, ib) THEN PtrAt(read_block(st, ib), k - DIRECT_BLOCKS) ELSE 0
\* the slots of ino that can hold a non-zero data pointer
DataSlots(st, ino) ==
    LET ib == ino.blocks[DIRECT_BLOCKS]
    IN  0..(DIRECT_BLOCKS - 1 + (IF ib # 0 /\ BlockOK(st, ib) THEN Len(read_block(st, ib).ptrs) ELSE 0))
\* ino holds exactly nb data blocks, the k-th in slot k
HoldsBlocks(st, ino, nb) ==
    /\ \A k \in DataSlots(st, ino) : (DataPtr(st, ino, k) # 0) <=> (k < nb)
    /\ nb - 1 \in DataSlots(st, ino) \cup {-1}

\* C19: after a successful truncate_file(F, n) with new_size = size - n, F's
\* size is new_size, F holds exactly ceil(new_size/4096) data blocks, every data
\* block beyond that count has been freed and its pointer zeroed, and blocks[12]
\* is 0 with the indirect block freed whenever ceil(new_size/4096) <= 12.
C19_TruncateKeepsExactBlocks ==
    [][(last'.op = "truncate" /\ last'.ok)
          => LET n == find_inode_by_path(Cur, last'.p1)
                 old == read_inode(Cur, n)
                 new == read_inode(CurNext, n)
                 new_size == old.size - last'.n
                 new_blocks == CeilDiv(new_size, BLOCK_SIZE)
             IN  /\ new.size = new_size
                 /\ HoldsBlocks(CurNext, new, new_blocks)
                 /\ \A k \in DataSlots(Cur, old) :
                        (k >= new_blocks /\ DataPtr(Cur, old, k) # 0)
                            => ~block_bitmap'[DataPtr(Cur, old, k)]
                 /\ new_blocks <= DIRECT_BLOCKS
                        => /\ new.blocks[DIRECT_BLOCKS] = 0
                           /\ old.blocks[DIRECT_BLOCKS] # 0
                                  => ~block_bitmap'[old.blocks[DIRECT_BLOCKS]]]_vars
\* truncate_file has succeeded on a file whose indirect block held a pointer
\* past its size, left by a failed append: the file no longer has an indirect
\* block and a block it pointed to is still allocated, referenced by no inode
C19_BlockPastSizeKept ==
    /\ phase = "mounted" /\ last.op = "truncate" /\ last.ok
    /\ LET n == find_inode_by_path(Cur, last.p1)
       IN  /\ InodeOK(Cur, n) /\ read_inode(Cur, n).mode = FT_REGULAR
           /\ read_inode(Cur, n).size > 0
           /\ read_inode(Cur, n).blocks[DIRECT_BLOCKS] = 0
    /\ \E ib \in DOMAIN block_bitmap :
           /\ ~block_bitmap[ib] /\ read_block(Cur, ib).kind = "ind"
           /\ \E b \in Range(read_block(Cur, ib).ptrs) \ {0} :
                  /\ block_bitmap[b]
                  /\ \A i \in 1..superblock.inodes_count : b \notin RefBlocks(Cur, i)

\* C20: after a successful append_to_file(F, n), F's size is old_size + n and F
\* holds exactly ceil(size/4096) data blocks, the k-th in blocks[k] for k < 12
\* and in indirect slot k - 12 otherwise; a file of exactly 12*4096 bytes has
\* blocks[12] = 0, and appending one more byte allocates exactly two blocks
\* (one data block and the indirect block).
C20_AppendKeepsExactBlocks ==
    [][(last'.op = "append" /\ last'.ok)
          => LET n == find_inode_by_path(Cur, last'.p1)
                 old == read_inode(Cur, n)
                 new == read_inode(CurNext, n)
             IN  /\ new.size = old.size + last'.n
                 /\ HoldsBlocks(CurNext, new, CeilDiv(new.size, BLOCK_SIZE))
                 /\ new.size = DIRECT_BLOCKS * BLOCK_SIZE => new.blocks[DIRECT_BLOCKS] = 0
                 /\ (old.size = DIRECT_BLOCKS * BLOCK_SIZE /\ last'.n = 1)
                        => /\ Popcount(block_bitmap') = Popcount(block_bitmap) + 2
                           /\ new.blocks[DIRECT_BLOCKS] # 0]_vars
\* append_to_file has succeeded on a file whose indirect block held a pointer
\* past its size, left by a failed append: the slot after the file's last data
\* block is not 0
C20_SlotPastSizeKept ==
    /\ phase = "mounted" /\ last.op = "append" /\ last.ok
    /\ LET n == find_inode_by_path(Cur, last.p1)
           ino == read_inode(Cur, n)
       IN  /\ InodeOK(Cur, n) /\ ino.mode = FT_REGULAR
           /\ CeilDiv(ino.size, BLOCK_SIZE) > DIRECT_BLOCKS
           /\ DataPtr(Cur, ino, CeilDiv(ino.size, BLOCK_SIZE)) # 0

\* the most data blocks an inode can name: blocks[0..11] and one indirect block
CapacityBlocks == DIRECT_BLOCKS + PTRS_PER_BLOCK

\* C16: append_to_file(F, n) returns failure whenever F's current block count
\* plus the blocks needed for the n bytes exceeds 12 + 1024, and no call
\* stores into an indirect slot with index 1024 or more.
C16_AppendRefusedPastCapacity ==
    [][(phase = "mounted" /\ last'.op = "append")
          => LET n == find_inode_by_path(Cur, last'.p1)
                 old == read_inode(Cur, n)
             IN  /\ last'.at # "stopped"
                 /\ (InodeOK(Cur, n) /\ old.mode = FT_REGULAR
                      /\ CeilDiv(old.size + last'.n, BLOCK_SIZE) > CapacityBlocks)
                        => (~last'.ok /\ phase' = "mounted")]_vars
\* append_to_file has returned success on a file that now needs more than
\* 12 + 1024 data blocks for its size
C16_AppendPastCapacity ==
    /\ phase = "mounted" /\ last.op = "append" /\ last.ok
    /\ LET n == find_inode_by_path(Cur, last.p1)
           ino == read_inode(Cur, n)
       IN  /\ InodeOK(Cur, n) /\ ino.mode = FT_REGULAR
           /\ CeilDiv(ino.size, BLOCK_SIZE) > CapacityBlocks
           /\ CeilDiv(ino.size - last.n, BLOCK_SIZE) <= CapacityBlocks

\* C17: every regular file's size is at most (12 + 1024) * 4096 bytes, whether
\* it was written by copy_from_system or grown by append_to_file.
C17_FileSizeWithinCapacity ==
    phase = "mounted"
        => \A i \in 1..superblock.inodes_count :
              LET ino == read_inode(Cur, i)
              IN  (ino.links_count # 0 /\ ino.mode = FT_REGULAR)
                      => ino.size <= CapacityBlocks * BLOCK_SIZE
\* copy_from_system has returned success for a host file of more than
\* (12 + 1024) * 4096 bytes: the file has the host file's size and its indirect
\* block is full
C17_CopyPastCapacity ==
    /\ phase = "mounted" /\ last.op = "copy_from" /\ last.ok
    /\ last.n > CapacityBlocks * BLOCK_SIZE
    /\ LET n == find_inode_by_path(Cur, last.p1)
           ino == read_inode(Cur, n)
       IN  /\ InodeOK(Cur, n) /\ ino.mode = FT_REGULAR
           /\ ino.size = last.n
           /\ DataPtr(Cur, ino, CapacityBlocks - 1) # 0

\* C21: for a regular file F and n > 0, a successful append_to_file(F, n)
\* followed by truncate_file(F, n) restores F's size and the number of used
\* blocks that get_disk_usage reports to their values before the append.
C21_AppendTruncateRestores ==
    [][(phase = "mounted" /\ last'.op = "append" /\ last'.ok)
          => LET t == truncate_file(CurNext, last'.p1, last'.n)
             IN  /\ t.ok
                 /\ FileSize(t.st, last'.p1) = FileSize(Cur, last'.p1)
                 /\ get_disk_usage(t.st) = get_disk_usage(Cur)]_vars
\* append_to_file has succeeded and the file's size needs one block more than
\* before, and truncate_file of the same bytes frees no block
C21_BlockNotReturned ==
    /\ phase = "mounted" /\ last.op = "append" /\ last.ok
    /\ LET size == FileSize(Cur, last.p1)
           t == truncate_file(Cur, last.p1, last.n)
       IN  /\ CeilDiv(size, BLOCK_SIZE) > CeilDiv(size - last.n, BLOCK_SIZE)
           /\ t.ok
           /\ FileSize(t.st, last.p1) = size - last.n
           /\ get_disk_usage(t.st) = get_disk_usage(Cur)

\* the bytes of a host file of n bytes, in the pieces copy_to_system writes them
HostBytes(n) ==
    [k \in 1..CeilDiv(n, BLOCK_SIZE) |->
        Seg("host", (k - 1) * BLOCK_SIZE, Min(BLOCK_SIZE, n - (k - 1) * BLOCK_SIZE))]

\* C22: when copy_from_system(H, V) succeeds, copy_to_system(V, H') writes an H'
\* of the same length and the same bytes as H, for sizes in the direct range
\* and in the indirect range.
C22_CopyRoundTrip ==
    [][(phase = "mounted" /\ last'.op = "copy_from" /\ last'.ok
        /\ last'.n <= CapacityBlocks * BLOCK_SIZE)
          => LET r == copy_to_system(CurNext, last'.p1)
             IN  r.ok /\ r.out = HostBytes(last'.n)]_vars
\* a host file that needs the indirect block has been imported and
\* copy_to_system gives its bytes back
C22_IndirectRoundTrip ==
    /\ phase = "mounted" /\ last.op = "copy_from" /\ last.ok
    /\ last.n > DIRECT_BLOCKS * BLOCK_SIZE
    /\ copy_to_system(Cur, last.p1).ok
    /\ Len(copy_to_system(Cur, last.p1).out) = DIRECT_BLOCKS + 1

\* C23: after every mutating operation returns, the superblock and the bitmap
\* block on the image equal the in-core superblock and bitmap, so that closing
\* the image and mounting it again yields the same superblock and bitmap.
C23_ImageMatchesCore ==
    (phase \in {"created", "mounted"} /\ last.op \in PublicOps)
        => /\ disk.sb = superblock
           /\ disk.bitmap = block_bitmap
\* create_disk has returned success and the superblock on the image is not the
\* in-core one: block 0 holds what was written over it
C23_SuperblockOverwritten ==
    /\ phase = "created" /\ last.op = "format" /\ last.ok
    /\ disk.sb.magic # superblock.magic
    /\ disk.bitmap # block_bitmap

\* the paths of FilePaths that name a regular file
RegularPaths(st) ==
    {p \in FilePaths : LET n == find_inode_by_path(st, p)
                       IN  InodeOK(st, n) /\ read_inode(st, n).mode = FT_REGULAR}

\* C24: truncate_file(path, 0) on an existing regular file returns failure and
\* leaves the file unchanged.
C24_TruncateZeroRefused ==
    phase = "mounted"
        => \A p \in RegularPaths(Cur) :
               LET t == truncate_file(Cur, p, 0)
               IN  ~t.ok /\ t.st = Cur
\* C24 as the code has it: the truncate command with 0 bytes on an existing
\* regular file is refused by the shell and leaves the image unchanged;
\* truncate_file(path, 0) itself returns success and leaves the image unchanged.
C24_TruncateZeroRefusedByShell ==
    phase = "mounted"
        => \A p \in RegularPaths(Cur) :
               LET c == truncate_command(Cur, p, 0)
                   t == truncate_file(Cur, p, 0)
               IN  /\ ~c.ok /\ c.st = Cur
                   /\ t.ok /\ t.st = Cur
\* a regular file with data in the indirect range exists
C24_FileToTruncate ==
    /\ phase = "mounted"
    /\ \E p \in RegularPaths(Cur) : FileSize(Cur, p) > DIRECT_BLOCKS * BLOCK_SIZE

\* the live entries of directory inode dir whose name is comp
HasEntryNamed(st, dir, comp) ==
    \E k \in 1..Len(Visited(st, read_inode(st, dir))) :
        NameMatches(EntryOf(st, Visited(st, read_inode(st, dir))[k]), comp)

\* C25: path resolution normalises its input: "" and "/" both resolve to
\* inode 1, a missing leading '/' is treated as absolute, one trailing '/' is
\* stripped and empty components are ignored, so that "a", "/a", "/a/" and "//a"
\* all resolve to the same inode; resolution returns 0 when a component is
\* missing or an intermediate component is not a directory.
C25_PathsNormalised ==
    phase = "mounted"
        => LET a == find_inode_by_path(Cur, <<"/", "a">>)
           IN  /\ find_inode_by_path(Cur, <<>>) = 1
               /\ find_inode_by_path(Cur, <<"/">>) = 1
               /\ find_inode_by_path(Cur, <<"a">>) = a
               /\ find_inode_by_path(Cur, <<"/", "a", "/">>) = a
               /\ find_inode_by_path(Cur, <<"/", "/", "a">>) = a
               /\ find_inode_by_path(Cur, <<"a", "/", "/", "b">>)
                      = find_inode_by_path(Cur, <<"/", "a", "/", "b">>)
               /\ (InodeOK(Cur, 1) /\ ~HasEntryNamed(Cur, 1, <<"a">>)) => a = 0
               /\ \A c \in {<<"a">>, <<"b">>} :
                      LET deep == find_inode_by_path(Cur, <<"/", "a", "/">> \o c)
                      IN  /\ a = 0 => deep = 0
                          /\ (InodeOK(Cur, a) /\ read_inode(Cur, a).mode # FT_DIRECTORY) => deep = 0
                          /\ (InodeOK(Cur, a) /\ ~HasEntryNamed(Cur, a, c)) => deep = 0
\* /a is a directory with an entry b in it: "a" resolves to the inode of /a,
\* and "a//b" to a third inode
C25_FileAndDirectoryResolved ==
    /\ phase = "mounted"
    /\ LET a == find_inode_by_path(Cur, <<"a">>)
           ab == find_inode_by_path(Cur, <<"a", "/", "/", "b">>)
       IN  /\ InodeOK(Cur, a) /\ a # 1
           /\ read_inode(Cur, a).mode = FT_DIRECTORY
           /\ InodeOK(Cur, ab) /\ ab # 1 /\ ab # a

\* some directory block of the image holds an entry for inode i under name
EntryOnImage(st, i, name) ==
    \E b \in DOMAIN st.d.blocks :
        /\ st.d.blocks[b].kind = "dir"
        /\ \E off \in DOMAIN st.d.blocks[b].ents :
               /\ st.d.blocks[b].ents[off].inode = i
               /\ NameMatches(st.d.blocks[b].ents[off], name)

\* C26: within each mutating operation the block writes are issued in the
\* stated order; for a name insertion (create_file, create_link) the containing
\* directory block is written before the target inode, and the target inode
\* before the parent inode: once the target inode has been written, the
\* directory block with the new entry is on the image.
C26_DirectoryBlockBeforeInode ==
    phase = "mounted"
        => /\ \A p \in Paths, type \in {FT_REGULAR, FT_DIRECTORY} :
                  LET r == create_file(Cur, ParentOf(p), NameOf(p), type)
                  IN  r.ret # 0 => /\ read_inode(r.mid, r.ret).links_count = 1
                                   /\ EntryOnImage(r.mid, r.ret, NameOf(p))
           /\ \A pair \in LinkPairs :
                  LET r == create_link(Cur, pair[1], pair[2])
                      t == find_inode_by_path(Cur, pair[1])
                  IN  r.ok => /\ read_inode(r.mid, t).links_count # read_inode(Cur, t).links_count
                              /\ EntryOnImage(r.mid, t, NameOf(pair[2]))
\* create_file can succeed here, and when it has written the new inode no
\* directory block holds the new name yet
C26_InodeBeforeDirectoryBlock ==
    /\ phase = "mounted"
    /\ \E p \in Paths :
           LET r == create_file(Cur, ParentOf(p), NameOf(p), FT_REGULAR)
           IN  /\ r.ret # 0
               /\ read_inode(r.mid, r.ret).links_count = 1
               /\ read_inode(r.mid, r.ret).mode = FT_REGULAR
               /\ ~EntryOnImage(r.mid, r.ret, NameOf(p))
               /\ EntryOnImage(r.st, r.ret, NameOf(p))

\* C27: allocate_block returns 0 exactly when free_blocks_count is 0: it never
\* returns 0 while a free block exists and never returns a non-zero block when
\* free_blocks_count is 0.
C27_ZeroExactlyWhenNoneFree ==
    phase \in {"created", "mounted"}
        => /\ (allocate_block(Cur).ret = 0) <=> (superblock.free_blocks_count = 0)
           /\ (\E b \in DOMAIN block_bitmap : ~block_bitmap[b]) => allocate_block(Cur).ret # 0
\* on the one-block image create_disk leaves, allocate_block finds no clear bit
\* and returns 0 while free_blocks_count is not 0
C27_ZeroWithFreeCount ==
    /\ phase = "created" /\ last.op = "format" /\ last.ok
    /\ allocate_block(Cur).ret = 0
    /\ allocate_block(Cur).st = Cur
    /\ superblock.free_blocks_count # 0

\* block 0, the bitmap block and the blocks of the inode table
MetaBlocks(st) == {0, st.sb.bitmap_block} \cup (st.sb.first_inode_block..(st.sb.first_data_block - 1))

\* C28: after any sequence of operations, block 0, the bitmap block and every
\* inode-table block have their bitmap bit set; free_block is never applied to
\* them and allocate_block never returns one of them.
C28_MetaBlocksStayAllocated ==
    phase \in {"created", "mounted"}
        => /\ \A b \in MetaBlocks(Cur) : b \in DOMAIN block_bitmap /\ block_bitmap[b]
           /\ allocate_block(Cur).ret \notin (MetaBlocks(Cur) \ {0})
           /\ allocate_block(Cur).ret = 0 => allocate_block(Cur).st = Cur
\* create_disk has returned success on an image whose bitmap has no bit for
\* the bitmap block
C28_BitmapBlockWithoutBit ==
    /\ phase = "created" /\ last.op = "format" /\ last.ok
    /\ superblock.bitmap_block \notin DOMAIN block_bitmap
    /\ superblock.bitmap_block >= superblock.blocks_count

\* a name of n characters
LongName(n) == [k \in 1..n |-> "x"]

\* C29: creating an entry whose name has length 255 succeeds and the name is
\* stored with name_len = 255; creating an entry whose name has length 256 is
\* rejected and adds no directory entry.
C29_NameLengthLimit ==
    phase = "mounted"
        => LET short == create_file(Cur, P_root, <<"x">>, FT_REGULAR)
               r255 == create_file(Cur, P_root, LongName(255), FT_REGULAR)
               r256 == create_file(Cur, P_root, LongName(256), FT_REGULAR)
           IN  /\ (r255.ret # 0) <=> (short.ret # 0)
               /\ r255.ret # 0
                    => /\ \E v \in EntriesFor(r255.st, P_root, r255.ret) :
                              /\ EntryOf(r255.st, v).name_len = 255
                              /\ EntryOf(r255.st, v).name = LongName(255)
                       /\ Lookup(r255.st, read_inode(r255.st, 1), LongName(255)) = r255.ret
               /\ r256.ret = 0
               /\ r256.st.d.blocks = disk.blocks
\* create_file has room for a new name in the root and, given a name of 256
\* characters, returns a new inode whose entry has name_len = 0
C29_LongNameStored ==
    /\ phase = "mounted" /\ nops >= 1
    /\ LET r256 == create_file(Cur, P_root, LongName(256), FT_REGULAR)
       IN  /\ r256.ret # 0
           /\ \E v \in EntriesFor(r256.st, P_root, r256.ret) :
                  EntryOf(r256.st, v).name_len = 0
           /\ Lookup(r256.st, read_inode(r256.st, 1), LongName(256)) = 0

\* path does not resolve in st, or resolves to an inode that is not a regular file
NotAFile(st, path) ==
    LET n == find_inode_by_path(st, path)
    IN  n = 0 \/ (InodeOK(st, n) /\ read_inode(st, n).mode # FT_REGULAR)
\* path does not resolve in st, or resolves to an inode that is not a directory
NotADirectory(st, path) ==
    LET n == find_inode_by_path(st, path)
    IN  n = 0 \/ (InodeOK(st, n) /\ read_inode(st, n).mode # FT_DIRECTORY)

\* C30: append_to_file, truncate_file and copy_to_system on a path that does
\* not resolve or resolves to a non-regular file, truncate_file with n greater
\* than the file size, and mkdir whose parent is missing or is not a directory,
\* all return failure and leave the superblock, bitmap, inode table and
\* directory blocks unchanged.
C30_RefusedCallsChangeNothing ==
    [][phase = "mounted"
          => /\ \A p \in Paths : NotAFile(Cur, p) => ~copy_to_system(Cur, p).ok
             /\ (last'.op \in {"append", "truncate"} /\ NotAFile(Cur, last'.p1))
                    => (~last'.ok /\ CurNext = Cur /\ phase' = "mounted")
             /\ (last'.op = "truncate" /\ ~NotAFile(Cur, last'.p1)
                 /\ last'.n > FileSize(Cur, last'.p1))
                    => (~last'.ok /\ CurNext = Cur /\ phase' = "mounted")
             /\ (last'.op = "mkdir" /\ NotADirectory(Cur, ParentOf(last'.p1)))
                    => (~last'.ok /\ CurNext = Cur /\ phase' = "mounted")]_vars
\* mkdir below a regular file has been refused
C30_MkdirBelowFileRefused ==
    /\ phase = "mounted" /\ last.op = "mkdir" /\ ~last.ok
    /\ LET n == find_inode_by_path(Cur, ParentOf(last.p1))
       IN  InodeOK(Cur, n) /\ read_inode(Cur, n).mode = FT_REGULAR

\* the blocks of the inode table of an image with n inodes
InodeTableBlocks(n) == CeilDiv(n * INODE_SIZE, BLOCK_SIZE)

\* C31: after format(size) and mount, disk usage reports total =
\* ceil(size/4096) blocks and used = 3 + K blocks (superblock, bitmap, K
\* inode-table blocks, one root directory block), free_inodes_count =
\* inodes_count - 1, and the root directory lists no entries; for size =
\* 1,048,576 the total is 256.
C31_FreshImageUsage ==
    [][(last.op = "format" /\ last'.op = "mount" /\ last'.ok)
          => LET usage == get_disk_usage(CurNext)
                 sb == CurNext.sb
             IN  /\ usage[2] = CeilDiv(last.n, BLOCK_SIZE)
                 /\ usage[1] = 3 + InodeTableBlocks(sb.inodes_count)
                 /\ sb.free_inodes_count >= 0
                 /\ sb.free_inodes_count = sb.inodes_count - 1
                 /\ list_directory(CurNext, P_root) = <<>>
                 /\ (last.n = 1048576 => usage[2] = 256)]_vars
\* a three-block image is mounted: it has no inode, and free_inodes_count is
\* 0 - 1 as a uint32_t
C31_NoInodeImageMounted ==
    /\ phase = "mounted" /\ last.op = "mount" /\ last.ok
    /\ superblock.blocks_count = 3 /\ superblock.inodes_count = 0
    /\ superblock.free_inodes_count = U32_MAX
    /\ get_disk_usage(Cur) = <<3, 3>>
\* the same on every image of at least four blocks (one inode or more)
C31_FreshImageUsageFromFourBlocks ==
    [][(last.op = "format" /\ last'.op = "mount" /\ last'.ok /\ last.n > 3 * BLOCK_SIZE)
          => LET usage == get_disk_usage(CurNext)
                 sb == CurNext.sb
             IN  /\ usage[2] = CeilDiv(last.n, BLOCK_SIZE)
                 /\ usage[1] = 3 + InodeTableBlocks(sb.inodes_count)
                 /\ sb.free_inodes_count >= 0
                 /\ sb.free_inodes_count = sb.inodes_count - 1
                 /\ list_directory(CurNext, P_root) = <<>>
                 /\ (last.n = 1048576 => usage[2] = 256)]_vars
\* the one-MiB image is mounted
C31_OneMiBMounted ==
    /\ phase = "mounted" /\ last.op = "mount" /\ superblock.blocks_count = 256

\* the entries of the directory at path dir that name inode i under a name
\* other than name
OtherNames(st, dir, i, name) ==
    {v \in EntriesFor(st, dir, i) : ~NameMatches(EntryOf(st, v), name)}

\* C32: remove_file(path) tombstones the directory entry whose name is the
\* last component of path: when two names in the same directory refer to the
\* same inode, rm of one name leaves the entry with the other name intact.
C32_RemoveKeepsOtherName ==
    [][(phase = "mounted" /\ last'.op = "rm" /\ last'.ok)
          => LET p == last'.p1
                 n == find_inode_by_path(Cur, p)
             IN  \A v \in OtherNames(Cur, ParentOf(p), n, NameOf(p)) :
                     EntryOf(CurNext, v) = EntryOf(Cur, v)]_vars
\* rm of the second of two names of a file has zeroed the entry of the first:
\* the entry b still names the inode, the entry a before it is a tombstone
C32_OtherNameTombstoned ==
    /\ phase = "mounted" /\ last.op = "rm" /\ last.ok /\ last.p1 = P_b
    /\ LET blk == read_block(Cur, read_inode(Cur, 1).blocks[0])
       IN  \E o1, o2 \in DOMAIN blk.ents :
               /\ o1 < o2
               /\ blk.ents[o1].inode = 0 /\ NameMatches(blk.ents[o1], <<"a">>)
               /\ blk.ents[o2].inode # 0 /\ NameMatches(blk.ents[o2], <<"b">>)
               /\ read_inode(Cur, blk.ents[o2].inode).links_count = 1

\* the entries with a non-zero inode field, in the blocks of the directories
\* in use, that name an inode of the table whose links_count is 0
EntriesOfFreedInodes(st) ==
    UNION {{v \in Present(st, read_inode(st, m)) :
               /\ InodeOK(st, EntryOf(st, v).inode)
               /\ read_inode(st, EntryOf(st, v).inode).links_count = 0} : m \in Dirs(st)}

\* C33: no live directory entry (inode field non-zero) ever references an
\* inode whose links_count is 0: an inode is freed only after every entry
\* that references it has been removed, after any sequence of operations
\* including failed copy_from_system and rmdir of a directory that has a
\* second link.
C33_NoEntryOfFreedInode ==
    phase = "mounted" => EntriesOfFreedInodes(Cur) = {}
\* rmdir has freed a directory that had a second name: an entry of the root
\* still names its inode, whose links_count is now 0
C33_SecondNameOfRemovedDirectory ==
    /\ phase = "mounted" /\ last.op = "rmdir" /\ last.ok
    /\ \E v \in Present(Cur, read_inode(Cur, 1)) :
           LET e == EntryOf(Cur, v)
           IN  /\ InodeOK(Cur, e.inode) /\ e.inode # 1
               /\ read_inode(Cur, e.inode).links_count = 0
               /\ read_inode(Cur, 1).links_count # 0

\* the inodes in use
InUse(st) == {i \in 1..st.sb.inodes_count : read_inode(st, i).links_count # 0}

\* C34: after any sequence of operations, every inode with links_count > 0 is
\* referenced by at least one live entry of a directory reachable from the
\* root; in particular rm applied to a path that names a directory never
\* frees a directory that still contains live entries.
C34_InodesInUseAreReachable ==
    phase = "mounted" => InUse(Cur) \subseteq Reachable(Cur)
\* rm of a directory path has succeeded and freed the directory: a directory
\* made inside it is still in use and nothing reachable from the root names it
C34_ChildOrphanedByRm ==
    /\ phase = "mounted" /\ last.op = "rm" /\ last.ok /\ last.at = "freed"
    /\ find_inode_by_path(Cur, last.p1) = 0
    /\ read_inode(Cur, 1).links_count # 0
    /\ \E n \in Dirs(Cur) : n \notin Reachable(Cur)

\* two entries carry the same name
SameName(e, f) ==
    /\ e.name_len = f.name_len
    /\ \A k \in 1..e.name_len : CharAt(e.name, k) = CharAt(f.name, k)
\* the pairs of distinct live entries of directory inode m with the same name
Duplicates(st, m) ==
    {vw \in Present(st, read_inode(st, m)) \X Present(st, read_inode(st, m)) :
        /\ vw[1] # vw[2]
        /\ Live(st, EntryOf(st, vw[1])) /\ Live(st, EntryOf(st, vw[2]))
        /\ SameName(EntryOf(st, vw[1]), EntryOf(st, vw[2]))}

\* C35: after any sequence of mkdir, copy_from_system, link, rm and rmdir, no
\* directory contains two live entries with the same name.
C35_NamesAreUnique ==
    phase = "mounted" => \A m \in Dirs(Cur) : Duplicates(Cur, m) = {}
\* a link has been made under a name its directory already held: the root
\* holds two entries of that name, for two inodes in use
C35_LinkOverExistingName ==
    /\ phase = "mounted" /\ last.op = "link" /\ last.ok
    /\ \E vw \in Duplicates(Cur, 1) :
           /\ NameMatches(EntryOf(Cur, vw[1]), NameOf(last.p2))
           /\ EntryOf(Cur, vw[1]).inode # EntryOf(Cur, vw[2]).inode

\* the blocks of st whose bitmap bit is clear
ClearBits(st) == {i \in 0..(st.sb.blocks_count - 1) : ~st.bm[i]}
\* allocate_block applied to st hands out block b
HandsOut(st, b) ==
    LET a == allocate_block(st)
    IN  a.ret = b /\ a.st.bm = [st.bm EXCEPT ![b] = TRUE]

\* C36: allocate_block is first-fit: it returns the lowest-indexed block whose
\* bitmap bit is clear, so a block freed by rm or truncate is the next one
\* handed out when it is the lowest free index.
C36_FirstFit ==
    [][phase' = "mounted"
          => /\ \A b \in ClearBits(CurNext) :
                    (\A c \in ClearBits(CurNext) : b <= c) => HandsOut(CurNext, b)
             /\ (last'.op \in {"rm", "truncate"} /\ phase = "mounted")
                    => \A b \in ClearBits(CurNext) \ ClearBits(Cur) :
                           (\A c \in ClearBits(CurNext) : b <= c)
                               => allocate_block(CurNext).ret = b]_vars
\* rm or truncate has freed a block below blocks that stay allocated, and
\* that block is the one allocate_block hands out next
C36_FreedBlockHandedOut ==
    /\ phase = "mounted" /\ last.op \in {"rm", "truncate"} /\ last.ok
    /\ LET b == allocate_block(Cur).ret
       IN  /\ b # 0 /\ ~block_bitmap[b]
           /\ \E c \in (b + 1)..(superblock.blocks_count - 1) : block_bitmap[c]
           /\ \A c \in 0..(b - 1) : block_bitmap[c]

\* C37: links_count never wraps around: remove_file never decrements the
\* links_count of an inode whose links_count is already 0, so no inode ever
\* holds links_count = 2^32 - 1.
C37_LinkCountNeverWraps ==
    [][phase = "mounted"
          => /\ (last'.op = "rm" /\ last'.ok)
                    => read_inode(Cur, find_inode_by_path(Cur, last'.p1)).links_count # 0
             /\ \A i \in 1..superblock'.inodes_count :
                    read_inode(CurNext, i).links_count # U32_MAX]_vars
\* rm of the name a failed copy left behind has succeeded on an inode that was
\* free: the inode now holds links_count 0xFFFFFFFF and is still counted free
C37_FreeInodeDecremented ==
    /\ phase = "mounted" /\ last.op = "rm" /\ last.ok /\ last.at = "unlinked"
    /\ \E i \in 1..superblock.inodes_count :
           /\ read_inode(Cur, i).links_count = U32_MAX
           /\ read_inode(Cur, i).mode = FT_NONE
    /\ superblock.free_inodes_count = superblock.inodes_count - 1

\* paths whose final component is empty
P_a_slashes == <<"/", "a", "/", "/">>
EmptyTailPaths == {P_empty, P_root, P_a_slashes}
\* the entries with a non-zero inode field and an empty name, in the blocks of
\* the directories in use
EmptyNamed(st) ==
    UNION {{v \in Present(st, read_inode(st, m)) : EntryOf(st, v).name_len = 0} : m \in Dirs(st)}

\* C38: create_directory on a path whose final component is empty ("", "/",
\* or a path ending in "//") returns failure and adds no directory entry with
\* an empty name to any directory.
C38_EmptyNameRefused ==
    phase = "mounted"
        => \A p \in EmptyTailPaths :
               LET r == create_directory(Cur, p)
               IN  /\ ~r.ok
                   /\ EmptyNamed(r.st) \subseteq EmptyNamed(Cur)
\* mkdir / has returned success: the root holds an entry with an empty name
\* that names a new directory
C38_EmptyNameStored ==
    /\ phase = "mounted" /\ last.op = "mkdir" /\ last.ok /\ last.p1 = P_root
    /\ \E v \in Present(Cur, read_inode(Cur, 1)) :
           LET e == EntryOf(Cur, v)
           IN  /\ e.name_len = 0 /\ e.name = <<>> /\ InodeOK(Cur, e.inode)
               /\ read_inode(Cur, e.inode).mode = FT_DIRECTORY
               /\ read_inode(Cur, e.inode).links_count = 1

\* the commands that only query the image
QueryOps == {"ls", "usage", "copy_to"}

\* C39: list_directory, get_disk_usage, find_inode_by_path and copy_to_system
\* leave the superblock, the in-core and on-disk bitmap, the inode table and
\* every data block unchanged.
C39_QueriesChangeNothing ==
    [][(phase = "mounted" /\ last'.op \in QueryOps)
          => /\ superblock' = superblock /\ block_bitmap' = block_bitmap
             /\ disk'.sb = disk.sb /\ disk'.bitmap = disk.bitmap
             /\ disk'.inodes = disk.inodes /\ disk'.blocks = disk.blocks]_vars
\* copy_to_system was given the path of the image file as its host path and
\* has emptied it: no superblock, bitmap, inode or block is left on the image
\* while the in-core superblock still describes a formatted image
C39_ImageEmptiedByCopyTo ==
    /\ phase = "emptied" /\ last.op = "copy_to" /\ last.at = "disk"
    /\ disk = NoImage
    /\ superblock.magic = FS_MAGIC /\ superblock.blocks_count = 20
\* the same when the host path of copy_to_system is not the image file
C39_QueriesChangeNothingOffImage ==
    [][(phase = "mounted" /\ last'.op \in QueryOps /\ last'.at # "disk")
          => (superblock' = superblock /\ block_bitmap' = block_bitmap /\ disk' = disk)]_vars

\* the headers, in the blocks of the directories in use, that no operation
\* wrote: bytes of a block written from a shorter object read as a header that
\* is not free
UnwrittenHeaders(st) ==
    UNION {{<<b, o>> : o \in {x \in DOMAIN read_block(st, b).ents :
                                  read_block(st, b).ents[x] = JunkEntry}} :
           b \in UNION {{y \in Range(ScanBlocks(read_inode(st, m))) : BlockOK(st, y)} :
                          m \in Dirs(st)}}

\* C40: when create_file or create_link places an entry in a newly allocated
\* directory block, or create_file writes the first block of a new directory,
\* every slot of that block other than the entries just written is free
\* (inode = 0 and rec_len = 0), so a later scan of the block sees no entry
\* that was not inserted by an operation.
C40_NewBlockSlotsAreFree ==
    [][(phase = "mounted" /\ last'.op \in {"mkdir", "copy_from", "link"})
          => UnwrittenHeaders(CurNext) \subseteq UnwrittenHeaders(Cur)]_vars
\* mkdir has written the first block of a new directory from DirEntry
\* entries[2]: the header a scan reads after the 12-byte record of . is
\* neither . nor .. and is not free
C40_UnwrittenHeaderInNewDirectory ==
    /\ phase = "mounted" /\ last.op = "mkdir" /\ last.ok
    /\ LET n == find_inode_by_path(Cur, last.p1)
       IN  /\ InodeOK(Cur, n) /\ read_inode(Cur, n).mode = FT_DIRECTORY
           /\ LET b == read_inode(Cur, n).blocks[0]
                  blk == read_block(Cur, b)
              IN  /\ <<b, DOT_REC_LEN>> \in UnwrittenHeaders(Cur)
                  /\ Chain(blk, 0) = <<0, DOT_REC_LEN>>
                  /\ blk.ents[DOT_REC_LEN].inode # 0 /\ blk.ents[DOT_REC_LEN].rec_len # 0

====
